---- MODULE Spec2Model ----
(***************************************************************************)
(* A model of the NMS wiki scraper (src/nms_scraper.py): the item          *)
(* classifier, the id generator, the SQLite persistence layer (items and   *)
(* the two recipe/ingredient table pairs), the name resolver and the       *)
(* driver loop of main(); and of the other programs of the repository:     *)
(* RefineryExtractor (src/extractors/refinery_extractor.py),               *)
(* NutrientProcessorExtractor (src/nutrient_processor_extractor.py),       *)
(* IntelligentNMSScraper (src/intelligent_scraper.py) and NMSWikiScraper   *)
(* (src/nms_wiki_scraper.py).                                              *)
(*                                                                         *)
(* Python strings are sequences of one-character strings, so that          *)
(* substring tests, lower(), split() and concatenation are computed and    *)
(* not assumed.  The w_... definitions are the string literals.            *)
(***************************************************************************)
EXTENDS Integers, Sequences, FiniteSets, TLC

VARIABLES
    \* ---- storage engine: the tables of nms.db, each in rowid order
    items, refinery_recipes, refinery_ingredients,
    cooking_recipes, cooking_ingredients,
    \* ---- NMSScraper instance
    group_counters, collected_recipes,
    \* ---- main(): position, pages still to visit, per-run bookkeeping
    pc, todo, recipe_idx, runs, group_counts,
    \* ---- the environment: storage and network faults so far
    faults,
    \* ---- observation of the run (history, never read by the program):
    \* the last call and its result, whether a recipe save was called in
    \* this run, the id each title was first stored under, the ids
    \* generated in this run, the recipe saves that succeeded, the tables
    \* before the last recipe save
    call, recipe_saved, first_id, run_ids, saved, prev,
    \* ---- the JSON files of the data directory: file name -> content
    files,
    \* ---- the other programs of the repository: RefineryExtractor's
    \* item_id_cache and NutrientProcessorExtractor's item_name_to_id (dicts,
    \* as the sequence of their entries in insertion order), NMSWikiScraper's
    \* seen_items
    item_id_cache, item_name_to_id, seen_items

vars == << items, refinery_recipes, refinery_ingredients,
           cooking_recipes, cooking_ingredients,
           group_counters, collected_recipes,
           pc, todo, recipe_idx, runs, group_counts, faults,
           call, recipe_saved, first_id, run_ids, saved, prev, files,
           item_id_cache, item_name_to_id, seen_items >>

toolVars == << item_id_cache, item_name_to_id, seen_items >>

dbVars == << items, refinery_recipes, refinery_ingredients,
             cooking_recipes, cooking_ingredients >>

----------------------------------------------------------------------------
(* String literals of the source, as character sequences.                  *)
w_element == <<"e", "l", "e", "m", "e", "n", "t">>
w_mineral == <<"m", "i", "n", "e", "r", "a", "l">>
w_substance == <<"s", "u", "b", "s", "t", "a", "n", "c", "e">>
w_fuel == <<"f", "u", "e", "l">>
w_catalyst == <<"c", "a", "t", "a", "l", "y", "s", "t">>
w_gas == <<"g", "a", "s">>
w_raw_materials == <<"r", "a", "w", " ", "m", "a", "t", "e", "r", "i", "a", "l", "s">>
w_fuel_elements == <<"f", "u", "e", "l", " ", "e", "l", "e", "m", "e", "n", "t", "s">>
w_special_elements == <<"s", "p", "e", "c", "i", "a", "l", " ", "e", "l", "e", "m", "e", "n", "t", "s">>
w_earth_elements == <<"e", "a", "r", "t", "h", " ", "e", "l", "e", "m", "e", "n", "t", "s">>
w_carbon == <<"c", "a", "r", "b", "o", "n">>
w_ferrite == <<"f", "e", "r", "r", "i", "t", "e">>
w_sodium == <<"s", "o", "d", "i", "u", "m">>
w_oxygen == <<"o", "x", "y", "g", "e", "n">>
w_cobalt == <<"c", "o", "b", "a", "l", "t">>
w_cadmium == <<"c", "a", "d", "m", "i", "u", "m">>
w_emeril == <<"e", "m", "e", "r", "i", "l">>
w_indium == <<"i", "n", "d", "i", "u", "m">>
w_fish == <<"f", "i", "s", "h">>
w_edible == <<"e", "d", "i", "b", "l", "e">>
w_food == <<"f", "o", "o", "d">>
w_ingredient == <<"i", "n", "g", "r", "e", "d", "i", "e", "n", "t">>
w_nutrient == <<"n", "u", "t", "r", "i", "e", "n", "t">>
w_meal == <<"m", "e", "a", "l">>
w_drink == <<"d", "r", "i", "n", "k">>
w_bait == <<"b", "a", "i", "t">>
w_larva == <<"l", "a", "r", "v", "a">>
w_grub == <<"g", "r", "u", "b">>
w_cooking == <<"c", "o", "o", "k", "i", "n", "g">>
w_consumable == <<"c", "o", "n", "s", "u", "m", "a", "b", "l", "e">>
w_nutrient_processor == <<"n", "u", "t", "r", "i", "e", "n", "t", " ", "p", "r", "o", "c", "e", "s", "s", "o", "r">>
w_processable == <<"p", "r", "o", "c", "e", "s", "s", "a", "b", "l", "e">>
w_eat == <<"e", "a", "t">>
w_consume == <<"c", "o", "n", "s", "u", "m", "e">>
w_technology == <<"t", "e", "c", "h", "n", "o", "l", "o", "g", "y">>
w_platform == <<"p", "l", "a", "t", "f", "o", "r", "m">>
w_upgrade == <<"u", "p", "g", "r", "a", "d", "e">>
w_module == <<"m", "o", "d", "u", "l", "e">>
w_cooking_station == <<"c", "o", "o", "k", "i", "n", "g", " ", "s", "t", "a", "t", "i", "o", "n">>
w_food_processor == <<"f", "o", "o", "d", " ", "p", "r", "o", "c", "e", "s", "s", "o", "r">>
w_product == <<"p", "r", "o", "d", "u", "c", "t">>
w_container == <<"c", "o", "n", "t", "a", "i", "n", "e", "r">>
w_component == <<"c", "o", "m", "p", "o", "n", "e", "n", "t">>
w_manufactured == <<"m", "a", "n", "u", "f", "a", "c", "t", "u", "r", "e", "d">>
w_crafted == <<"c", "r", "a", "f", "t", "e", "d">>
w_agricultural_product == <<"a", "g", "r", "i", "c", "u", "l", "t", "u", "r", "a", "l", " ", "p", "r", "o", "d", "u", "c", "t">>
w_crafting == <<"c", "r", "a", "f", "t", "i", "n", "g">>
w_upgrading == <<"u", "p", "g", "r", "a", "d", "i", "n", "g">>
w_trade_commodity == <<"t", "r", "a", "d", "e", " ", "c", "o", "m", "m", "o", "d", "i", "t", "y">>
w_valuable == <<"v", "a", "l", "u", "a", "b", "l", "e">>
w_tradeable == <<"t", "r", "a", "d", "e", "a", "b", "l", "e">>
w_trade == <<"t", "r", "a", "d", "e">>
w_construction == <<"c", "o", "n", "s", "t", "r", "u", "c", "t", "i", "o", "n">>
w_building == <<"b", "u", "i", "l", "d", "i", "n", "g">>
w_base == <<"b", "a", "s", "e">>
w_structure == <<"s", "t", "r", "u", "c", "t", "u", "r", "e">>
w_decoration == <<"d", "e", "c", "o", "r", "a", "t", "i", "o", "n">>
w_interior == <<"i", "n", "t", "e", "r", "i", "o", "r">>
w_freighter_construction == <<"f", "r", "e", "i", "g", "h", "t", "e", "r", " ", "c", "o", "n", "s", "t", "r", "u", "c", "t", "i", "o", "n">>
w_base_building == <<"b", "a", "s", "e", " ", "b", "u", "i", "l", "d", "i", "n", "g">>
w_build == <<"b", "u", "i", "l", "d">>
w_fabricated == <<"f", "a", "b", "r", "i", "c", "a", "t", "e", "d">>
w_habitable == <<"h", "a", "b", "i", "t", "a", "b", "l", "e">>
w_freighter_equipment == <<"f", "r", "e", "i", "g", "h", "t", "e", "r", " ", "e", "q", "u", "i", "p", "m", "e", "n", "t">>
w_corridor == <<"c", "o", "r", "r", "i", "d", "o", "r">>
w_room == <<"r", "o", "o", "m">>
w_door == <<"d", "o", "o", "r">>
w_wall == <<"w", "a", "l", "l">>
w_floor == <<"f", "l", "o", "o", "r">>
w_roof == <<"r", "o", "o", "f">>
w_window == <<"w", "i", "n", "d", "o", "w">>
w_blueprint == <<"b", "l", "u", "e", "p", "r", "i", "n", "t">>
w_blueprints == <<"b", "l", "u", "e", "p", "r", "i", "n", "t", "s">>
w_constructed_technology == <<"c", "o", "n", "s", "t", "r", "u", "c", "t", "e", "d", " ", "t", "e", "c", "h", "n", "o", "l", "o", "g", "y">>
w_scanner == <<"s", "c", "a", "n", "n", "e", "r">>
w_drive == <<"d", "r", "i", "v", "e">>
w_engine == <<"e", "n", "g", "i", "n", "e">>
w_artifact == <<"a", "r", "t", "i", "f", "a", "c", "t">>
w_curiosity == <<"c", "u", "r", "i", "o", "s", "i", "t", "y">>
w_relic == <<"r", "e", "l", "i", "c">>
w_treasure == <<"t", "r", "e", "a", "s", "u", "r", "e">>
w_sample == <<"s", "a", "m", "p", "l", "e">>
w_fossil == <<"f", "o", "s", "s", "i", "l">>
w_cook == <<"c", "o", "o", "k">>
w_cur == <<"c", "u", "r">>
w_nut == <<"n", "u", "t">>
w_other == <<"o", "t", "h", "e", "r">>
w_prod == <<"p", "r", "o", "d">>
w_raw == <<"r", "a", "w">>
w_ref == <<"r", "e", "f">>
w_tech == <<"t", "e", "c", "h">>
w_item == <<"i", "t", "e", "m">>
w_missing_ == <<"m", "i", "s", "s", "i", "n", "g", "_">>
w_missing_unknown == <<"m", "i", "s", "s", "i", "n", "g", "_", "u", "n", "k", "n", "o", "w", "n">>
w_ref_ == <<"r", "e", "f", "_">>
w_cook_ == <<"c", "o", "o", "k", "_">>
w_Refining == <<"R", "e", "f", "i", "n", "i", "n", "g">>
w_Cooking == <<"C", "o", "o", "k", "i", "n", "g">>
w_1_0 == <<"1", ".", "0">>
w_2_5 == <<"2", ".", "5">>
w_Carbon == <<"C", "a", "r", "b", "o", "n">>
w_Carbon_Ore == <<"C", "a", "r", "b", "o", "n", " ", "O", "r", "e">>
w_Cake == <<"C", "a", "k", "e">>
w_Salt == <<"S", "a", "l", "t">>
w_ore == <<"o", "r", "e">>
w_Smelt == <<"S", "m", "e", "l", "t">>
w_Crush == <<"C", "r", "u", "s", "h">>
w_Cream == <<"C", "r", "e", "a", "m">>
w_Carb == <<"C", "a", "r", "b">>
w_A_fuel == <<"A", " ", "f", "u", "e", "l">>
w_Raw_Material == <<"R", "a", "w", " ", "M", "a", "t", "e", "r", "i", "a", "l">>
w_12 == <<"1", "2">>
w_Raw_Materials == <<"R", "a", "w", " ", "M", "a", "t", "e", "r", "i", "a", "l", "s">>
w_Ore == <<"O", "r", "e">>
w_Mineral == <<"M", "i", "n", "e", "r", "a", "l">>
w_Eat == <<"E", "a", "t">>
w_Edible_Product == <<"E", "d", "i", "b", "l", "e", " ", "P", "r", "o", "d", "u", "c", "t">>
w_1_200_5 == <<"1", ",", "2", "0", "0", ".", "5">>
w_Products == <<"P", "r", "o", "d", "u", "c", "t", "s">>
w_Travel == <<"T", "r", "a", "v", "e", "l">>
w_Constructable_Relic == <<"C", "o", "n", "s", "t", "r", "u", "c", "t", "a", "b", "l", "e", " ", "R", "e", "l", "i", "c">>
w_Artifact == <<"A", "r", "t", "i", "f", "a", "c", "t">>
w_Multi_Tool == <<"M", "u", "l", "t", "i", "-", "T", "o", "o", "l">>
w_Stamina_technology == <<"S", "t", "a", "m", "i", "n", "a", " ", "t", "e", "c", "h", "n", "o", "l", "o", "g", "y">>
w_Protection_technology == <<"P", "r", "o", "t", "e", "c", "t", "i", "o", "n", " ", "t", "e", "c", "h", "n", "o", "l", "o", "g", "y">>
w_Scan_technology == <<"S", "c", "a", "n", " ", "t", "e", "c", "h", "n", "o", "l", "o", "g", "y">>
w_Projectile_technology == <<"P", "r", "o", "j", "e", "c", "t", "i", "l", "e", " ", "t", "e", "c", "h", "n", "o", "l", "o", "g", "y">>
w_Laser_technology == <<"L", "a", "s", "e", "r", " ", "t", "e", "c", "h", "n", "o", "l", "o", "g", "y">>
w_Artifact_Research == <<"A", "r", "t", "i", "f", "a", "c", "t", " ", "R", "e", "s", "e", "a", "r", "c", "h">>
w_Artifact_Database == <<"A", "r", "t", "i", "f", "a", "c", "t", " ", "D", "a", "t", "a", "b", "a", "s", "e">>
w_Ferrite == <<"F", "e", "r", "r", "i", "t", "e">>
w_Element == <<"E", "l", "e", "m", "e", "n", "t">>
w_Technology_Module == <<"T", "e", "c", "h", "n", "o", "l", "o", "g", "y", " ", "M", "o", "d", "u", "l", "e">>
w_Construction_Module == <<"C", "o", "n", "s", "t", "r", "u", "c", "t", "i", "o", "n", " ", "M", "o", "d", "u", "l", "e">>
w_Trade_commodity == <<"T", "r", "a", "d", "e", " ", "c", "o", "m", "m", "o", "d", "i", "t", "y">>
w_Consumable == <<"C", "o", "n", "s", "u", "m", "a", "b", "l", "e">>
w_Building == <<"B", "u", "i", "l", "d", "i", "n", "g">>
w_Tradeable == <<"T", "r", "a", "d", "e", "a", "b", "l", "e">>
w_Crafting__Upgrading == <<"C", "r", "a", "f", "t", "i", "n", "g", ",", " ", "U", "p", "g", "r", "a", "d", "i", "n", "g">>
w_Edible_food == <<"E", "d", "i", "b", "l", "e", " ", "f", "o", "o", "d">>
w_base_building_trade == <<"b", "a", "s", "e", " ", "b", "u", "i", "l", "d", "i", "n", "g", " ", "t", "r", "a", "d", "e">>
w_Scanner_Room == <<"S", "c", "a", "n", "n", "e", "r", " ", "R", "o", "o", "m">>
w_Nutrient_Processor == <<"N", "u", "t", "r", "i", "e", "n", "t", " ", "P", "r", "o", "c", "e", "s", "s", "o", "r">>
w_Glass == <<"G", "l", "a", "s", "s">>
w_Fossil == <<"F", "o", "s", "s", "i", "l">>
w_Fish_Bait == <<"F", "i", "s", "h", " ", "B", "a", "i", "t">>
w_Technology == <<"T", "e", "c", "h", "n", "o", "l", "o", "g", "y">>
w_Curiosity == <<"C", "u", "r", "i", "o", "s", "i", "t", "y">>
w_CARBON == <<"C", "A", "R", "B", "O", "N">>
w_Carbon_Ore_Dust == <<"C", "a", "r", "b", "o", "n", " ", "O", "r", "e", "-", "D", "u", "s", "t">>
w_Car_on == <<"C", "a", "r", "_", "o", "n">>
w_missing_carbon_ore_dust == <<"m", "i", "s", "s", "i", "n", "g", "_", "c", "a", "r", "b", "o", "n", "_", "o", "r", "e", "_", "d", "u", "s", "t">>
w_Condense == <<"C", "o", "n", "d", "e", "n", "s", "e">>
w_300_0 == <<"3", "0", "0", ".", "0">>
w_300 == <<"3", "0", "0">>
w_1_5 == <<"1", ".", "5">>
w_Refining_Operation == <<"R", "e", "f", "i", "n", "i", "n", "g", " ", "O", "p", "e", "r", "a", "t", "i", "o", "n">>
w_Requested_Operation__ == <<"R", "e", "q", "u", "e", "s", "t", "e", "d", " ", "O", "p", "e", "r", "a", "t", "i", "o", "n", ":", " ">>
w_condense_carbon == <<"c", "o", "n", "d", "e", "n", "s", "e", " ", "c", "a", "r", "b", "o", "n">>
w_Condensed_Carbon == <<"C", "o", "n", "d", "e", "n", "s", "e", "d", " ", "C", "a", "r", "b", "o", "n">>
w_oxygenate_carbon == <<"o", "x", "y", "g", "e", "n", "a", "t", "e", " ", "c", "a", "r", "b", "o", "n">>
w_Oxygen == <<"O", "x", "y", "g", "e", "n">>
w_feed_microbes == <<"f", "e", "e", "d", " ", "m", "i", "c", "r", "o", "b", "e", "s">>
w_algal_processing == <<"a", "l", "g", "a", "l", " ", "p", "r", "o", "c", "e", "s", "s", "i", "n", "g">>
w_harness_energy == <<"h", "a", "r", "n", "e", "s", "s", " ", "e", "n", "e", "r", "g", "y">>
w_create == <<"c", "r", "e", "a", "t", "e">>
w_into == <<"i", "n", "t", "o">>
w_Unknown_Output == <<"U", "n", "k", "n", "o", "w", "n", " ", "O", "u", "t", "p", "u", "t">>
w_input == <<"i", "n", "p", "u", "t">>
w_input1 == <<"i", "n", "p", "u", "t", "1">>
w_in1 == <<"i", "n", "1">>
w_input2 == <<"i", "n", "p", "u", "t", "2">>
w_in2 == <<"i", "n", "2">>
w_output == <<"o", "u", "t", "p", "u", "t">>
w_out == <<"o", "u", "t">>
w_result == <<"r", "e", "s", "u", "l", "t">>
w_time == <<"t", "i", "m", "e">>
w_duration == <<"d", "u", "r", "a", "t", "i", "o", "n">>
w_operation == <<"o", "p", "e", "r", "a", "t", "i", "o", "n">>
w_type == <<"t", "y", "p", "e">>
w_process == <<"p", "r", "o", "c", "e", "s", "s">>
w_poc_refine == <<"p", "o", "c", "-", "r", "e", "f", "i", "n", "e">>
w_refinery == <<"r", "e", "f", "i", "n", "e", "r", "y">>
w_refine == <<"r", "e", "f", "i", "n", "e">>
w_PoC_Refine == <<"P", "o", "C", "-", "R", "e", "f", "i", "n", "e">>
w_Refinery == <<"R", "e", "f", "i", "n", "e", "r", "y">>
w_Carbon_2_1_0_18_Condense_Carbon == <<"C", "a", "r", "b", "o", "n", ",", "2", ";", "1", ";", "0", ".", "1", "8", "%", "C", "o", "n", "d", "e", "n", "s", "e", " ", "C", "a", "r", "b", "o", "n">>
w_Salt_1_Carbon_x_1_2_Create_Salt == <<"S", "a", "l", "t", ",", "1", ";", "C", "a", "r", "b", "o", "n", ",", "x", ";", "1", ";", "2", "%", "C", "r", "e", "a", "t", "e", " ", "S", "a", "l", "t">>
w_Carbon_1_1_1_Smelt == <<"C", "a", "r", "b", "o", "n", ",", "1", ";", "1", ";", "1", "%", "S", "m", "e", "l", "t">>
w_input_Carbon_2_output_Oxygen_x3_time_5 == <<"i", "n", "p", "u", "t", "=", "C", "a", "r", "b", "o", "n", ",", "2", "|", "o", "u", "t", "p", "u", "t", "=", "O", "x", "y", "g", "e", "n", " ", "x", "3", "|", "t", "i", "m", "e", "=", "5">>
w_in1_Salt__in2___2_Carbon__result_Cake_operation_Bake == <<"i", "n", "1", "=", "S", "a", "l", "t", "|", " ", "i", "n", "2", " ", "=", " ", "2", " ", "C", "a", "r", "b", "o", "n", " ", "|", "r", "e", "s", "u", "l", "t", "=", "C", "a", "k", "e", "|", "o", "p", "e", "r", "a", "t", "i", "o", "n", "=", "B", "a", "k", "e">>
w_input_Carbon == <<"i", "n", "p", "u", "t", "=", "C", "a", "r", "b", "o", "n">>
w_Refine == <<"R", "e", "f", "i", "n", "e">>
w_ferment == <<"f", "e", "r", "m", "e", "n", "t">>
w_aged == <<"a", "g", "e", "d">>
w_wine == <<"w", "i", "n", "e">>
w_alcohol == <<"a", "l", "c", "o", "h", "o", "l">>
w_extract == <<"e", "x", "t", "r", "a", "c", "t">>
w_oil == <<"o", "i", "l">>
w_essence == <<"e", "s", "s", "e", "n", "c", "e">>
w_yolk == <<"y", "o", "l", "k">>
w_egg == <<"e", "g", "g">>
w_bake == <<"b", "a", "k", "e">>
w_cake == <<"c", "a", "k", "e">>
w_bread == <<"b", "r", "e", "a", "d">>
w_pie == <<"p", "i", "e">>
w_grill == <<"g", "r", "i", "l", "l">>
w_meat == <<"m", "e", "a", "t">>
w_steak == <<"s", "t", "e", "a", "k">>
w_blend == <<"b", "l", "e", "n", "d">>
w_mix == <<"m", "i", "x">>
w_combine == <<"c", "o", "m", "b", "i", "n", "e">>
w_soup == <<"s", "o", "u", "p">>
w_stew == <<"s", "t", "e", "w">>
w_broth == <<"b", "r", "o", "t", "h">>
w_Processor_Setting__Fermentation == <<"P", "r", "o", "c", "e", "s", "s", "o", "r", " ", "S", "e", "t", "t", "i", "n", "g", ":", " ", "F", "e", "r", "m", "e", "n", "t", "a", "t", "i", "o", "n">>
w_Processor_Setting__Extract_Nutrients == <<"P", "r", "o", "c", "e", "s", "s", "o", "r", " ", "S", "e", "t", "t", "i", "n", "g", ":", " ", "E", "x", "t", "r", "a", "c", "t", " ", "N", "u", "t", "r", "i", "e", "n", "t", "s">>
w_Processor_Setting__Chromatic_Yolk_Formation == <<"P", "r", "o", "c", "e", "s", "s", "o", "r", " ", "S", "e", "t", "t", "i", "n", "g", ":", " ", "C", "h", "r", "o", "m", "a", "t", "i", "c", " ", "Y", "o", "l", "k", " ", "F", "o", "r", "m", "a", "t", "i", "o", "n">>
w_Processor_Setting__Baking == <<"P", "r", "o", "c", "e", "s", "s", "o", "r", " ", "S", "e", "t", "t", "i", "n", "g", ":", " ", "B", "a", "k", "i", "n", "g">>
w_Processor_Setting__Grilling == <<"P", "r", "o", "c", "e", "s", "s", "o", "r", " ", "S", "e", "t", "t", "i", "n", "g", ":", " ", "G", "r", "i", "l", "l", "i", "n", "g">>
w_Processor_Setting__Blending == <<"P", "r", "o", "c", "e", "s", "s", "o", "r", " ", "S", "e", "t", "t", "i", "n", "g", ":", " ", "B", "l", "e", "n", "d", "i", "n", "g">>
w_Processor_Setting__Cooking == <<"P", "r", "o", "c", "e", "s", "s", "o", "r", " ", "S", "e", "t", "t", "i", "n", "g", ":", " ", "C", "o", "o", "k", "i", "n", "g">>
w_Processor_Setting__Processing == <<"P", "r", "o", "c", "e", "s", "s", "o", "r", " ", "S", "e", "t", "t", "i", "n", "g", ":", " ", "P", "r", "o", "c", "e", "s", "s", "i", "n", "g">>
w_Processor_Setting__Combining == <<"P", "r", "o", "c", "e", "s", "s", "o", "r", " ", "S", "e", "t", "t", "i", "n", "g", ":", " ", "C", "o", "m", "b", "i", "n", "i", "n", "g">>
w_blueprint_yes == <<"b", "l", "u", "e", "p", "r", "i", "n", "t", "=", "y", "e", "s">>
w_Salt_2_Carbon_1 == <<"S", "a", "l", "t", ",", "2", ";", "C", "a", "r", "b", "o", "n", ",", "1">>
w_Salt_2_Unobtainium_1 == <<"S", "a", "l", "t", ",", "2", ";", "U", "n", "o", "b", "t", "a", "i", "n", "i", "u", "m", ",", "1">>
w_Unobtainium_3 == <<"U", "n", "o", "b", "t", "a", "i", "n", "i", "u", "m", ",", "3">>
w_Salt_x__carbon_ore___2_note_a == <<"S", "a", "l", "t", ",", "x", ";", " ", "c", "a", "r", "b", "o", "n", " ", "o", "r", "e", " ", ",", " ", "2", ";", "n", "o", "t", "e", "=", "a">>
w_Salt_1_blueprint_yes == <<"S", "a", "l", "t", ",", "1", ";", "b", "l", "u", "e", "p", "r", "i", "n", "t", "=", "y", "e", "s">>
w_Mystery_Stew == <<"M", "y", "s", "t", "e", "r", "y", " ", "S", "t", "e", "w">>
w_Carbon_Cake == <<"C", "a", "r", "b", "o", "n", " ", "C", "a", "k", "e">>
w_Unobtainium == <<"U", "n", "o", "b", "t", "a", "i", "n", "i", "u", "m">>
w_commodity == <<"c", "o", "m", "m", "o", "d", "i", "t", "y">>
w_buildings == <<"b", "u", "i", "l", "d", "i", "n", "g", "s">>
w_curiosities == <<"c", "u", "r", "i", "o", "s", "i", "t", "i", "e", "s">>
w_nutrientProcessor == <<"n", "u", "t", "r", "i", "e", "n", "t", "P", "r", "o", "c", "e", "s", "s", "o", "r">>
w_products == <<"p", "r", "o", "d", "u", "c", "t", "s">>
w_rawMaterials == <<"r", "a", "w", "M", "a", "t", "e", "r", "i", "a", "l", "s">>
w_others == <<"o", "t", "h", "e", "r", "s">>

----------------------------------------------------------------------------
(* Python values.  None is a one-element sequence holding a token that is  *)
(* no character, so no string equals it; Raised marks the result of an     *)
(* expression that raises (None.lower() is an AttributeError).             *)
None == << "None" >>
Raised == << "raise" >>

UpperChars == << "A","B","C","D","E","F","G","H","I","J","K","L","M",
                 "N","O","P","Q","R","S","T","U","V","W","X","Y","Z" >>
LowerChars == << "a","b","c","d","e","f","g","h","i","j","k","l","m",
                 "n","o","p","q","r","s","t","u","v","w","x","y","z" >>
Digits == << "0","1","2","3","4","5","6","7","8","9" >>

\* str.lower() of one character
LowerMap ==
    [ c \in { UpperChars[i] : i \in 1..26 } |->
        LowerChars[CHOOSE i \in 1..26 : UpperChars[i] = c] ]

LowerChar(c) == IF c \in DOMAIN LowerMap THEN LowerMap[c] ELSE c

\* s.lower(); None has no lower()
StrLower(s) ==
    IF s = None \/ s = Raised THEN Raised
    ELSE [i \in 1..Len(s) |-> LowerChar(s[i])]

\* Python's  sub in s  on strings
Contains(sub, s) ==
    \E i \in 0..(Len(s) - Len(sub)) : \A j \in 1..Len(sub) : s[i + j] = sub[j]

\* Python's  x in lst  on a list: equality with an element
InList(x, lst) == \E i \in 1..Len(lst) : lst[i] = x

\* the field read without its  or ''
OrElse_missing(v, d) == v

\* Python's  v or d : the default replaces None and the empty string
OrElse(v, d) == IF v = None \/ v = << >> THEN d ELSE v

\* dict.get(k, default); a dict is a function on the keys it holds
DictGet(d, k, default) == IF k \in DOMAIN d THEN d[k] ELSE default

\* any(keyword in s for keyword in kws)
AnyIn(kws, s) == \E k \in kws : Contains(k, s)

\* str(n) for a natural number
RECURSIVE NatToStr(_)
NatToStr(n) ==
    IF n < 10 THEN << Digits[n + 1] >>
    ELSE NatToStr(n \div 10) \o << Digits[(n % 10) + 1] >>

----------------------------------------------------------------------------
(* NMSScraper.classify_item                                                *)

TARGET_GROUPS == { "buildings", "cooking", "curiosities", "fish",
                   "nutrientProcessor", "others", "products", "rawMaterials",
                   "refinery", "technology", "trade" }

\* the local variables of classify_item (lines 79-87)
ClassifyFields(item_data) ==
    LET infobox == DictGet(item_data, "infobox", << >>) IN
    [ description |-> StrLower(OrElse(DictGet(item_data, "description", None), << >>)),
      title       |-> StrLower(OrElse(DictGet(item_data, "title", None), << >>)),
      categories  |-> LET cats == DictGet(item_data, "categories", << >>)
                      IN [i \in 1..Len(cats) |-> StrLower(cats[i])],
      item_type   |-> StrLower(OrElse(DictGet(infobox, "type", None), << >>)),
      category    |-> StrLower(OrElse(DictGet(infobox, "category", None), << >>)),
      used_for    |-> StrLower(OrElse(DictGet(infobox, "used", None), << >>)) ]

\* 1. RAW MATERIALS
IsRawMaterials(f) ==
    \/ AnyIn({w_element, w_mineral, w_substance, w_fuel, w_catalyst, w_gas}, f.item_type)
    \/ \E k \in {w_raw_materials, w_fuel_elements, w_special_elements, w_earth_elements} :
            InList(k, f.categories)
    \/ AnyIn({w_carbon, w_ferrite, w_sodium, w_oxygen, w_cobalt, w_cadmium,
              w_emeril, w_indium}, f.title)

\* 2. FISH
IsFish(f) ==
    \/ Contains(w_fish, f.item_type)
    \/ Contains(w_fish, f.category)
    \/ \E i \in 1..Len(f.categories) : Contains(w_fish, f.categories[i])
    \/ Contains(w_fish, f.title)

\* the cooking test whose description words count whatever the type is
IsCooking_any_type(f) ==
    \/ AnyIn({w_edible, w_food, w_ingredient, w_nutrient, w_meal, w_drink,
              w_bait, w_larva, w_grub}, f.item_type)
    \/ Contains(w_cooking, f.used_for)
    \/ Contains(w_edible, f.category)
    \/ /\ f.category = w_consumable
       /\ AnyIn({w_nutrient_processor, w_processable, w_edible, w_food, w_cooking},
                f.description)
    \/ AnyIn({w_edible, w_food, w_meal, w_cooking, w_nutrient_processor,
              w_eat, w_consume, w_processable}, f.description)

\* 3. COOKING ("and" binds tighter than "or": the type exclusion guards
\*    only the last description test)
IsCooking(f) ==
    \/ AnyIn({w_edible, w_food, w_ingredient, w_nutrient, w_meal, w_drink,
              w_bait, w_larva, w_grub}, f.item_type)
    \/ Contains(w_cooking, f.used_for)
    \/ Contains(w_edible, f.category)
    \/ /\ f.category = w_consumable
       /\ AnyIn({w_nutrient_processor, w_processable, w_edible, w_food, w_cooking},
                f.description)
    \/ /\ AnyIn({w_edible, w_food, w_meal, w_cooking, w_nutrient_processor,
                 w_eat, w_consume, w_processable}, f.description)
       /\ ~ AnyIn({w_technology, w_platform, w_upgrade, w_module}, f.item_type)

\* 4. NUTRIENT PROCESSOR
IsNutrientProcessor(f) ==
    \/ AnyIn({w_nutrient_processor, w_cooking_station, w_food_processor}, f.description)
    \/ Contains(w_nutrient_processor, f.title)

\* 5. PRODUCTS
IsProducts(f) ==
    \/ AnyIn({w_product, w_consumable, w_container, w_component}, f.category)
    \/ AnyIn({w_product, w_manufactured, w_crafted, w_agricultural_product}, f.item_type)
    \/ (Contains(w_crafting, f.used_for) /\ ~ Contains(w_upgrading, f.used_for))

\* 6. TRADE
IsTrade(f) ==
    \/ AnyIn({w_trade_commodity, w_valuable}, f.item_type)
    \/ (f.category = w_tradeable /\ ~ Contains(w_product, f.item_type))
    \/ (Contains(w_trade, f.description) /\ ~ Contains(w_crafted, f.description))

\* the buildings test without the keywords of the title
IsBuildings_no_title(f) ==
    \/ AnyIn({w_construction, w_building, w_base, w_structure, w_decoration,
              w_interior, w_freighter_construction}, f.item_type)
    \/ AnyIn({w_base_building, w_construction, w_building}, f.category)
    \/ AnyIn({w_building, w_construction}, f.used_for)
    \/ AnyIn({w_base_building, w_construction, w_structure, w_build, w_fabricated,
              w_habitable, w_freighter_equipment}, f.description)

\* 7. BUILDINGS
IsBuildings(f) ==
    \/ AnyIn({w_construction, w_building, w_base, w_structure, w_decoration,
              w_interior, w_freighter_construction}, f.item_type)
    \/ AnyIn({w_base_building, w_construction, w_building}, f.category)
    \/ AnyIn({w_building, w_construction}, f.used_for)
    \/ AnyIn({w_base_building, w_construction, w_structure, w_build, w_fabricated,
              w_habitable, w_freighter_equipment}, f.description)
    \/ AnyIn({w_corridor, w_room, w_door, w_wall, w_floor, w_roof, w_window}, f.title)

\* 8. TECHNOLOGY
IsTechnology(f) ==
    \/ AnyIn({w_technology, w_platform, w_upgrade, w_blueprint}, f.item_type)
    \/ AnyIn({w_technology, w_blueprint}, f.category)
    \/ AnyIn({w_upgrading, w_technology}, f.used_for)
    \/ \E k \in {w_technology, w_blueprints, w_constructed_technology} :
            InList(k, f.categories)
    \/ /\ AnyIn({w_scanner, w_drive, w_engine, w_upgrade, w_blueprint}, f.title)
       /\ ~ Contains(w_room, f.title)
    \/ /\ Contains(w_module, f.item_type)
       /\ ~ Contains(w_construction, f.item_type)
       /\ ~ Contains(w_building, f.category)

\* 9. CURIOSITIES
IsCuriosities(f) ==
    \/ AnyIn({w_artifact, w_curiosity, w_relic, w_treasure, w_sample}, f.item_type)
    \/ AnyIn({w_curiosity, w_artifact}, f.category)
    \/ \E k \in {w_curiosity, w_artifact} : InList(k, f.categories)
    \/ AnyIn({w_artifact, w_relic, w_treasure, w_sample, w_fossil}, f.title)

\* the cascade with the technology test moved before the buildings test
Cascade_technology_first(f) ==
    IF IsRawMaterials(f) THEN "rawMaterials"
    ELSE IF IsFish(f) THEN "fish"
    ELSE IF IsCooking(f) THEN "cooking"
    ELSE IF IsNutrientProcessor(f) THEN "nutrientProcessor"
    ELSE IF IsProducts(f) THEN "products"
    ELSE IF IsTrade(f) THEN "trade"
    ELSE IF IsTechnology(f) THEN "technology"
    ELSE IF IsBuildings(f) THEN "buildings"
    ELSE IF IsCuriosities(f) THEN "curiosities"
    ELSE "others"

\* the if/return cascade of lines 89-182 over the extracted fields
Cascade(f) ==
    IF IsRawMaterials(f) THEN "rawMaterials"
    ELSE IF IsFish(f) THEN "fish"
    ELSE IF IsCooking(f) THEN "cooking"
    ELSE IF IsNutrientProcessor(f) THEN "nutrientProcessor"
    ELSE IF IsProducts(f) THEN "products"
    ELSE IF IsTrade(f) THEN "trade"
    ELSE IF IsBuildings(f) THEN "buildings"
    ELSE IF IsTechnology(f) THEN "technology"
    ELSE IF IsCuriosities(f) THEN "curiosities"
    ELSE "others"

\* classify_item: the label, or "raise" when building the fields raises
classify_item(item_data) ==
    LET f == ClassifyFields(item_data) IN
    IF Raised \in { f.description, f.title, f.item_type, f.category, f.used_for }
          \/ \E i \in 1..Len(f.categories) : f.categories[i] = Raised
    THEN "raise"
    ELSE Cascade(f)

----------------------------------------------------------------------------
(* More of Python's str: split, strip, isdigit, replace, float, int.       *)

Whitespace == { " ", "\t", "\n" }

Split_whole(s, sep) == << s >>

\* s.split(sep) for a one-character separator
RECURSIVE Split(_, _)
Split(s, sep) ==
    IF \E i \in 1..Len(s) : s[i] = sep
    THEN LET i == CHOOSE j \in 1..Len(s) : s[j] = sep /\ \A k \in 1..(j - 1) : s[k] # sep
         IN << SubSeq(s, 1, i - 1) >> \o Split(SubSeq(s, i + 1, Len(s)), sep)
    ELSE << s >>

\* s.split(sep, 1): at most one split, at the first separator
Split1(s, sep) ==
    IF \E i \in 1..Len(s) : s[i] = sep
    THEN LET i == CHOOSE j \in 1..Len(s) : s[j] = sep /\ \A k \in 1..(j - 1) : s[k] # sep
         IN << SubSeq(s, 1, i - 1), SubSeq(s, i + 1, Len(s)) >>
    ELSE << s >>

\* s.strip()
RECURSIVE Strip(_)
Strip(s) ==
    IF s = << >> THEN s
    ELSE IF s[1] \in Whitespace THEN Strip(Tail(s))
    ELSE IF s[Len(s)] \in Whitespace THEN Strip(SubSeq(s, 1, Len(s) - 1))
    ELSE s

IsDigitChar(c) == \E i \in 1..10 : Digits[i] = c

\* s.isdigit(): non-empty and digits only
IsDigit(s) == s # << >> /\ \A i \in 1..Len(s) : IsDigitChar(s[i])

\* s.replace(old, new) for a one-character old; new is a string
RECURSIVE Replace(_, _, _)
Replace(s, old, new) ==
    IF s = << >> THEN s
    ELSE (IF s[1] = old THEN new ELSE << s[1] >>) \o Replace(Tail(s), old, new)

DigitVal(c) == (CHOOSE i \in 1..10 : Digits[i] = c) - 1

\* int(s) for a string of digits
RECURSIVE IntOf(_)
IntOf(s) ==
    IF s = << >> THEN 0
    ELSE IntOf(SubSeq(s, 1, Len(s) - 1)) * 10 + DigitVal(s[Len(s)])

RECURSIVE StripLeadingZeros(_)
StripLeadingZeros(s) ==
    IF Len(s) > 1 /\ s[1] = "0" THEN StripLeadingZeros(Tail(s)) ELSE s

RECURSIVE StripTrailingZeros(_)
StripTrailingZeros(s) ==
    IF Len(s) > 1 /\ s[Len(s)] = "0"
    THEN StripTrailingZeros(SubSeq(s, 1, Len(s) - 1)) ELSE s

\* float(s) for s made of digits and dots with at least one digit; a float
\* is kept as its repr (str(float)): "1.50" -> 1.5, "5" -> 5.0, ".5" -> 0.5.
\* More than one dot is a ValueError (Raised).
FloatOf(s) ==
    LET parts == Split(s, ".") IN
    IF Len(parts) > 2 THEN Raised
    ELSE LET ip == IF parts[1] = << >> THEN << "0" >> ELSE StripLeadingZeros(parts[1])
             fp == IF Len(parts) = 1 \/ parts[Len(parts)] = << >> THEN << "0" >>
                   ELSE StripTrailingZeros(parts[2])
         IN ip \o << "." >> \o fp

----------------------------------------------------------------------------
(* NMSScraper.__init__ and generate_item_id                                *)

group_prefixes ==
    [ g \in TARGET_GROUPS |->
        CASE g = "buildings"         -> w_build
          [] g = "cooking"           -> w_cook
          [] g = "curiosities"       -> w_cur
          [] g = "fish"              -> w_fish
          [] g = "nutrientProcessor" -> w_nut
          [] g = "others"            -> w_other
          [] g = "products"          -> w_prod
          [] g = "rawMaterials"      -> w_raw
          [] g = "refinery"          -> w_ref
          [] g = "technology"        -> w_tech
          [] g = "trade"             -> w_trade ]

\* self.group_counters after __init__
InitCounters == [ g \in TARGET_GROUPS |-> 0 ]

\* generate_item_id without the increment
CountersAfter_same(counters, group) == counters

\* the counters after generate_item_id(title, group): the group's counter is
\* incremented before the id is built
CountersAfter(counters, group) ==
    [ counters EXCEPT ![group] = counters[group] + 1 ]

\* the id generate_item_id returns, from the counters it has incremented
ItemIdOf(counters, group) ==
    DictGet(group_prefixes, group, w_item) \o NatToStr(counters[group])

----------------------------------------------------------------------------
(* The storage engine.  A table is the sequence of its rows in rowid       *)
(* order, the order in which a SELECT without an index returns them.  The  *)
(* timestamp columns and the AUTOINCREMENT surrogate keys of the recipe    *)
(* tables are not kept: no statement of the program reads them.            *)

\* REPLACE INTO / INSERT OR REPLACE: the rows that conflict on the unique
\* key are deleted and the new row gets a fresh rowid
ReplaceInto(table, row, key) ==
    SelectSeq(table, LAMBDA r : r[key] # row[key]) \o << row >>

\* json.dumps(v): the text that json.loads turns back into v
JsonDumps(v) == [ json |-> v ]
JsonLoads(t) == t.json

\* the first maximal run of digits of s, with an optional ".digits" after it:
\* re.search(r'[\d,]+\.?\d*', s) once the commas are removed
RECURSIVE TakeDigits(_)
TakeDigits(s) ==
    IF s # << >> /\ IsDigitChar(s[1]) THEN << s[1] >> \o TakeDigits(Tail(s)) ELSE << >>

RECURSIVE NumericMatch(_)
NumericMatch(s) ==
    IF s = << >> THEN None
    ELSE IF IsDigitChar(s[1])
         THEN LET ip   == TakeDigits(s)
                  rest == SubSeq(s, Len(ip) + 1, Len(s))
              IN IF rest # << >> /\ rest[1] = "."
                 THEN ip \o << "." >> \o TakeDigits(Tail(rest))
                 ELSE ip
         ELSE NumericMatch(Tail(s))

\* extract_value_from_infobox
extract_value_from_infobox(infobox) ==
    LET value_str == DictGet(infobox, "value", << >>) IN
    IF value_str = << >> \/ value_str = None THEN None
    ELSE LET cleaned == Strip(Replace(value_str, ",", << >>))
             m       == NumericMatch(cleaned)
         IN IF m = None THEN None ELSE FloatOf(m)

SectionKeys == { "summary", "game_description", "source_info", "use_info",
                 "release_history", "additional_info", "fishing_info",
                 "progression_info" }

\* the row save_item_to_db binds to its REPLACE statement (lines 667-683)
ItemRow(item_data, group) ==
    [ id               |-> item_data["id"],
      title            |-> item_data["title"],
      summary          |-> DictGet(item_data, "summary", None),
      game_description |-> DictGet(item_data, "game_description", None),
      source_info      |-> DictGet(item_data, "source_info", None),
      use_info         |-> DictGet(item_data, "use_info", None),
      release_history  |-> DictGet(item_data, "release_history", None),
      additional_info  |-> DictGet(item_data, "additional_info", None),
      fishing_info     |-> DictGet(item_data, "fishing_info", None),
      progression_info |-> DictGet(item_data, "progression_info", None),
      type             |-> DictGet(DictGet(item_data, "infobox", << >>), "type", << >>),
      group_name       |-> group,
      value            |-> extract_value_from_infobox(DictGet(item_data, "infobox", << >>)),
      infobox          |-> JsonDumps(DictGet(item_data, "infobox", << >>)),
      categories       |-> JsonDumps(DictGet(item_data, "categories", << >>)) ]

\* INSERT OR IGNORE in place of REPLACE: a row that exists is kept
save_item_to_db_ignore(table, item_data, group, db_ok) ==
    IF db_ok /\ ~ \E i \in 1..Len(table) : table[i].id = item_data["id"]
    THEN table \o << ItemRow(item_data, group) >>
    ELSE table

\* save_item_to_db: the items table after the call; db_ok = FALSE is a
\* sqlite3.Error from execute or commit, which leaves the table as it was
\* and makes the call return False
save_item_to_db(table, item_data, group, db_ok) ==
    IF db_ok THEN ReplaceInto(table, ItemRow(item_data, group), "id")
    ELSE table

----------------------------------------------------------------------------
(* The name resolver: _get_item_id_by_name and _resolve_item_name_to_id.   *)
(* fetchone() of a SELECT without ORDER BY returns the first matching row  *)
(* of the scan, and the scan of one unchanged table is in rowid order.     *)

\* the id of the first of the rows (indices) a SELECT has matched, or None
FirstId(table, rows) ==
    IF rows = {} THEN None
    ELSE table[CHOOSE i \in rows : \A j \in rows : i <= j].id

\* SQLite's  s LIKE p : % is any run of characters, _ any one character,
\* letters compare without case
RECURSIVE Like(_, _)
Like(s, p) ==
    IF p = << >> THEN s = << >>
    ELSE IF p[1] = "%"
         THEN Like(s, Tail(p)) \/ (s # << >> /\ Like(Tail(s), p))
         ELSE /\ s # << >>
              /\ (p[1] = "_" \/ LowerChar(p[1]) = LowerChar(s[1]))
              /\ Like(Tail(s), Tail(p))

\* WHERE title = ?
TitleIs(name, row) == row.title = name
\* WHERE LOWER(title) = LOWER(?)
TitleIsNoCase(name, row) == StrLower(row.title) = StrLower(name)
TitleLike_either(name, row) ==
    \/ Like(StrLower(row.title), StrLower(<< "%" >> \o name \o << "%" >>))
    \/ Like(StrLower(name), StrLower(<< "%" >> \o row.title \o << "%" >>))

\* WHERE LOWER(title) LIKE LOWER('%name%')
TitleLike(name, row) ==
    Like(StrLower(row.title), StrLower(<< "%" >> \o name \o << "%" >>))

MissingId_none(name) == None

\* the placeholder of line 878
MissingId(name) ==
    w_missing_ \o Replace(Replace(StrLower(name), " ", << "_" >>), "-", << "_" >>)

\* _get_item_id_by_name; failed = the query raises sqlite3.Error
get_item_id_by_name(table, item_name, failed) ==
    IF failed THEN None
    ELSE FirstId(table, { i \in 1..Len(table) : TitleIs(item_name, table[i]) })

\* _resolve_item_name_to_id; fault is the set of the queries ("exact",
\* "ci", "like") that raise sqlite3.Error in this call
resolve_item_name_to_id(table, name, fault) ==
    IF name = << >> THEN w_missing_unknown
    ELSE LET item_id == get_item_id_by_name(table, name, "exact" \in fault) IN
         IF item_id # None /\ item_id # << >> THEN item_id
         ELSE IF "ci" \in fault THEN MissingId(name)
         ELSE LET ci == FirstId(table, { i \in 1..Len(table) : TitleIsNoCase(name, table[i]) }) IN
              IF ci # None THEN ci
              ELSE IF "like" \in fault THEN MissingId(name)
              ELSE LET part == FirstId(table, { i \in 1..Len(table) : TitleLike(name, table[i]) }) IN
                   IF part # None THEN part ELSE MissingId(name)

----------------------------------------------------------------------------
(* save_refinery_recipes and save_cooking_recipes                          *)

TimeOperation_swapped(part, default_operation) ==
    IF Contains(<< "%" >>, part)
    THEN LET two == Split1(part, "%")
         IN [ time_part |-> Strip(two[2]), operation |-> two[1] ]
    ELSE [ time_part |-> part, operation |-> default_operation ]

\* "time%operation" -> time part and operation (lines 719-724, 793-798)
TimeOperation(part, default_operation) ==
    IF Contains(<< "%" >>, part)
    THEN LET two == Split1(part, "%")
         IN [ time_part |-> two[1], operation |-> Strip(two[2]) ]
    ELSE [ time_part |-> part, operation |-> default_operation ]

\* lines 727-730, 801-804
TimeSeconds(time_part, default) ==
    IF IsDigit(Replace(time_part, ".", << >>))
    THEN LET f == FloatOf(time_part) IN IF f = Raised THEN default ELSE f
    ELSE default

\* lines 733-736, 787-788 (parsed, and written to no column)
OutputQty(output_qty_part) ==
    IF IsDigit(output_qty_part) THEN IntOf(output_qty_part) ELSE 1

\* the ingredient rows of one line, in the order of its components; a
\* component without a comma gives no row.  strip_qty: the cooking variant
\* strips the quantity before isdigit(), the refinery variant does not
RECURSIVE IngredientRows(_, _, _, _, _)
IngredientRows(recipe_id, ingredient_parts, strip_qty, table, fault) ==
    IF ingredient_parts = << >> THEN << >>
    ELSE LET part == Head(ingredient_parts)
             rest == IngredientRows(recipe_id, Tail(ingredient_parts),
                                    strip_qty, table, fault)
         IN IF ~ Contains(<< "," >>, part) THEN rest
            ELSE LET two      == Split1(part, ",")
                     ing_name == Strip(two[1])
                     qty_text == IF strip_qty THEN Strip(two[2]) ELSE two[2]
                     ing_qty  == IF IsDigit(qty_text) THEN IntOf(qty_text) ELSE 1
                 IN << [ recipe_id          |-> recipe_id,
                         ingredient_item_id |-> resolve_item_name_to_id(table, ing_name, fault),
                         quantity           |-> ing_qty ] >> \o rest

\* the two differences between the refinery and the cooking variant
RefineryKind == [ prefix |-> w_ref_,  operation |-> w_Refining, time |-> w_1_0,
                  strip_qty |-> FALSE ]
CookingKind  == [ prefix |-> w_cook_, operation |-> w_Cooking,  time |-> w_2_5,
                  strip_qty |-> TRUE ]

\* the loop over the recipe lines from line i on: the recipe and ingredient
\* tables inside the open transaction
RECURSIVE SaveLines(_, _, _, _, _, _, _)
SaveLines_output_from_line(kind, item_id, recipe_lines, i, db, table, fault) ==
    IF i > Len(recipe_lines) THEN db
    ELSE LET recipe_id == kind.prefix \o item_id \o << "_" >> \o NatToStr(i)
             parts     == Split(recipe_lines[i], ";")
         IN IF Len(parts) < 3
            THEN SaveLines(kind, item_id, recipe_lines, i + 1, db, table, fault)
            ELSE LET ingredient_parts == SubSeq(parts, 1, Len(parts) - 2)
                     top == TimeOperation(parts[Len(parts)], kind.operation)
                     row == [ recipe_id      |-> recipe_id,
                              output_item_id |-> MissingId(top.operation),
                              time_seconds   |-> TimeSeconds(top.time_part, kind.time),
                              operation      |-> top.operation ]
                     new == [ recipes     |-> ReplaceInto(db.recipes, row, "recipe_id"),
                              ingredients |-> db.ingredients \o
                                  IngredientRows(recipe_id, ingredient_parts,
                                                 kind.strip_qty, table, fault) ]
                 IN SaveLines(kind, item_id, recipe_lines, i + 1, new, table, fault)

SaveLines(kind, item_id, recipe_lines, i, db, table, fault) ==
    IF i > Len(recipe_lines) THEN db
    ELSE LET recipe_id == kind.prefix \o item_id \o << "_" >> \o NatToStr(i)
             parts     == Split(recipe_lines[i], ";")
         IN IF Len(parts) < 3
            THEN SaveLines(kind, item_id, recipe_lines, i + 1, db, table, fault)
            ELSE LET ingredient_parts == SubSeq(parts, 1, Len(parts) - 2)
                     top == TimeOperation(parts[Len(parts)], kind.operation)
                     row == [ recipe_id      |-> recipe_id,
                              output_item_id |-> item_id,
                              time_seconds   |-> TimeSeconds(top.time_part, kind.time),
                              operation      |-> top.operation ]
                     new == [ recipes     |-> ReplaceInto(db.recipes, row, "recipe_id"),
                              ingredients |-> db.ingredients \o
                                  IngredientRows(recipe_id, ingredient_parts,
                                                 kind.strip_qty, table, fault) ]
                 IN SaveLines(kind, item_id, recipe_lines, i + 1, new, table, fault)

\* one call: nothing for an empty list; a sqlite3.Error (db_ok = FALSE) ends
\* the loop before commit, and closing the connection rolls back every row
\* the call has written
SaveRecipes(kind, item_id, recipe_lines, db, table, fault, db_ok) ==
    IF recipe_lines = << >> THEN db
    ELSE IF ~ db_ok THEN db
    ELSE SaveLines(kind, item_id, recipe_lines, 1, db, table, fault)

save_refinery_recipes(item_id, recipe_lines, db, table, fault, db_ok) ==
    SaveRecipes(RefineryKind, item_id, recipe_lines, db, table, fault, db_ok)

save_cooking_recipes(item_id, recipe_lines, db, table, fault, db_ok) ==
    SaveRecipes(CookingKind, item_id, recipe_lines, db, table, fault, db_ok)

----------------------------------------------------------------------------
(* The pages of the wiki, as main() sees them after parsing: the item_data *)
(* of lines 1278-1292, without the id.  main() builds no "description"     *)
(* key.                                                                    *)

Pages == { w_Carbon, w_Carbon_Ore, w_Cake }

l_smelt == w_Salt \o << ",", "2", ";" >> \o w_carbon \o << " " >> \o w_ore
           \o << ",", "3", ";", "2", ";", "1", ".", "5", "%" >> \o w_Smelt
l_bad   == w_Salt \o << ",", "1" >>
l_crush == w_Carbon \o << ",", "1", ";", "1", ";", "x", "%" >> \o w_Crush
l_bake  == w_Cream \o << ",", " ", "2", ";" >> \o w_Carb
           \o << ",", "x", ";", "1", ";", "2", ".", "5" >>

ParsedPage(page_title) ==
    CASE page_title = w_Carbon ->
           [ title |-> page_title, summary |-> w_A_fuel, game_description |-> None,
             source_info |-> None, use_info |-> None, release_history |-> None,
             additional_info |-> None, fishing_info |-> None,
             progression_info |-> None,
             refinery_recipes |-> << l_smelt >>, cooking_recipes |-> << >>,
             infobox |-> [ type |-> w_Raw_Material, value |-> w_12 ],
             categories |-> << w_Raw_Materials >> ]
      [] page_title = w_Carbon_Ore ->
           [ title |-> page_title, summary |-> None, game_description |-> w_Ore,
             source_info |-> None, use_info |-> None, release_history |-> None,
             additional_info |-> None, fishing_info |-> None,
             progression_info |-> None,
             refinery_recipes |-> << l_bad, l_crush >>, cooking_recipes |-> << >>,
             infobox |-> [ type |-> w_Mineral ],
             categories |-> << >> ]
      [] page_title = w_Cake ->
           [ title |-> page_title, summary |-> None, game_description |-> None,
             source_info |-> None, use_info |-> w_Eat, release_history |-> None,
             additional_info |-> None, fishing_info |-> None,
             progression_info |-> None,
             refinery_recipes |-> << >>, cooking_recipes |-> << l_bake >>,
             infobox |-> [ type |-> w_Edible_Product, value |-> w_1_200_5 ],
             categories |-> << w_Products >> ]

\* group = scraper.classify_item(item_data) (line 1295), for each page
PageGroup == [ t \in Pages |-> classify_item(ParsedPage(t)) ]

\* lines 1190-1207
skip_titles == { w_Travel, w_Constructable_Relic, w_Artifact, w_Multi_Tool,
                 w_Stamina_technology, w_Protection_technology, w_Scan_technology,
                 w_Projectile_technology, w_Laser_technology, w_Artifact_Research,
                 w_Artifact_Database, w_Ferrite }

\* d[key] = value on a Python dict kept as the sequence of its entries in
\* insertion order: an existing key keeps its place
DictSet(d, key, value) ==
    IF \E i \in 1..Len(d) : d[i].key = key
    THEN [ i \in 1..Len(d) |-> IF d[i].key = key THEN [ key |-> key, value |-> value ]
                                              ELSE d[i] ]
    ELSE d \o << [ key |-> key, value |-> value ] >>

----------------------------------------------------------------------------
(* Bounds of the model                                                     *)
MaxRuns == 2
MaxFaults == 1

EmptyDb == [ items |-> << >>, refinery_recipes |-> << >>,
             refinery_ingredients |-> << >>, cooking_recipes |-> << >>,
             cooking_ingredients |-> << >> ]

NoCall == [ op |-> "none" ]

\* the data directory without a file
NoFiles == << >>

Init ==
    /\ items = << >> /\ refinery_recipes = << >> /\ refinery_ingredients = << >>
    /\ cooking_recipes = << >> /\ cooking_ingredients = << >>
    /\ group_counters = InitCounters
    /\ collected_recipes = << >>
    /\ pc = "idle" /\ todo = {} /\ recipe_idx = 1 /\ runs = 0
    /\ group_counts = [ g \in TARGET_GROUPS |-> 0 ]
    /\ faults = 0
    /\ call = NoCall
    /\ recipe_saved = FALSE
    /\ first_id = [ t \in Pages |-> None ]
    /\ run_ids = << >>
    /\ saved = {}
    /\ prev = EmptyDb
    /\ files = NoFiles
    /\ item_id_cache = << >> /\ item_name_to_id = << >> /\ seen_items = {}

\* main() up to the page loop (lines 1044-1167): a new NMSScraper, the
\* optional hard reset, the page set
StartRun(hard_reset) ==
    /\ pc = "idle" /\ runs < MaxRuns
    /\ runs' = runs + 1
    /\ IF hard_reset
       THEN /\ items' = << >> /\ refinery_recipes' = << >>
            /\ refinery_ingredients' = << >> /\ cooking_recipes' = << >>
            /\ cooking_ingredients' = << >>
            /\ first_id' = [ t \in Pages |-> None ]
            /\ saved' = {}
            /\ files' = NoFiles
       ELSE UNCHANGED << dbVars, first_id, saved, files >>
    /\ UNCHANGED toolVars
    /\ group_counters' = InitCounters
    /\ collected_recipes' = << >>
    /\ group_counts' = [ g \in TARGET_GROUPS |-> 0 ]
    /\ todo' = Pages
    /\ pc' = "pages"
    /\ recipe_idx' = 1
    /\ call' = [ op |-> "main" ]
    /\ recipe_saved' = FALSE
    /\ run_ids' = << >>
    /\ prev' = EmptyDb
    /\ UNCHANGED faults

\* the recipe lines of a page are collected whether or not its item was saved
StorePage_collect_unsaved(page_title, db_ok) ==
    LET parsed    == ParsedPage(page_title)
        group     == PageGroup[page_title]
        counters  == CountersAfter(group_counters, group)
        item_id   == ItemIdOf(counters, group)
        item_data == [ k \in DOMAIN parsed \cup { "id" } |->
                         IF k = "id" THEN item_id ELSE parsed[k] ]
        has_recipes == parsed.refinery_recipes # << >> \/ parsed.cooking_recipes # << >>
    IN /\ group_counters' = counters
       /\ items' = save_item_to_db(items, item_data, group, db_ok)
       /\ group_counts' = IF db_ok THEN [ group_counts EXCEPT ![group] = @ + 1 ]
                          ELSE group_counts
       /\ collected_recipes' =
            IF has_recipes
            THEN DictSet(collected_recipes, item_id,
                         [ refinery |-> parsed.refinery_recipes,
                           cooking  |-> parsed.cooking_recipes ])
            ELSE collected_recipes
       /\ call' = [ op |-> "save_item_to_db", item_data |-> item_data,
                    group |-> group, result |-> db_ok,
                    old |-> SelectSeq(items, LAMBDA r : r.id = item_id) ]
       /\ run_ids' = Append(run_ids, [ title |-> page_title, id |-> item_id,
                                       saved |-> db_ok ])
       /\ first_id' = IF db_ok /\ first_id[page_title] = None
                      THEN [ first_id EXCEPT ![page_title] = item_id ]
                      ELSE first_id

\* the body of the page loop for a page that is fetched, not skipped and
\* parsed (lines 1263-1309); db_ok is the outcome of save_item_to_db
StorePage(page_title, db_ok) ==
    LET parsed    == ParsedPage(page_title)
        group     == PageGroup[page_title]
        counters  == CountersAfter(group_counters, group)
        item_id   == ItemIdOf(counters, group)
        item_data == [ k \in DOMAIN parsed \cup { "id" } |->
                         IF k = "id" THEN item_id ELSE parsed[k] ]
        has_recipes == parsed.refinery_recipes # << >> \/ parsed.cooking_recipes # << >>
    IN /\ group_counters' = counters
       /\ items' = save_item_to_db(items, item_data, group, db_ok)
       /\ group_counts' = IF db_ok THEN [ group_counts EXCEPT ![group] = @ + 1 ]
                          ELSE group_counts
       /\ collected_recipes' =
            IF db_ok /\ has_recipes
            THEN DictSet(collected_recipes, item_id,
                         [ refinery |-> parsed.refinery_recipes,
                           cooking  |-> parsed.cooking_recipes ])
            ELSE collected_recipes
       /\ call' = [ op |-> "save_item_to_db", item_data |-> item_data,
                    group |-> group, result |-> db_ok,
                    old |-> SelectSeq(items, LAMBDA r : r.id = item_id) ]
       /\ run_ids' = Append(run_ids, [ title |-> page_title, id |-> item_id,
                                       saved |-> db_ok ])
       /\ first_id' = IF db_ok /\ first_id[page_title] = None
                      THEN [ first_id EXCEPT ![page_title] = item_id ]
                      ELSE first_id

\* a failed fetch ends the page loop
ProcessPage_abort(page_title, fetched, db_ok) ==
    /\ pc = "pages" /\ page_title \in todo
    /\ todo' = IF fetched THEN todo \ { page_title } ELSE {}
    /\ faults' = IF fetched /\ db_ok THEN faults ELSE faults + 1
    /\ (fetched /\ db_ok) \/ faults < MaxFaults
    /\ IF ~ fetched
       THEN /\ ~ db_ok
            /\ call' = [ op |-> "get_page_raw_content", title |-> page_title ]
            /\ UNCHANGED << items, group_counters, group_counts, collected_recipes,
                            run_ids, first_id >>
       ELSE IF page_title \in skip_titles
       THEN /\ db_ok
            /\ call' = [ op |-> "skip", title |-> page_title ]
            /\ UNCHANGED << items, group_counters, group_counts, collected_recipes,
                            run_ids, first_id >>
       ELSE StorePage(page_title, db_ok)
    /\ UNCHANGED << refinery_recipes, refinery_ingredients, cooking_recipes,
                    cooking_ingredients, pc, recipe_idx, runs, recipe_saved,
                    saved, prev,
                    files, toolVars >>


\* one iteration of the page loop (lines 1169-1314).  The loop runs over a
\* set: the order of the pages is any order.
ProcessPage(page_title, fetched, db_ok) ==
    /\ pc = "pages" /\ page_title \in todo
    /\ todo' = todo \ { page_title }
    /\ faults' = IF fetched /\ db_ok THEN faults ELSE faults + 1
    /\ (fetched /\ db_ok) \/ faults < MaxFaults
    /\ IF ~ fetched
       THEN /\ ~ db_ok
            /\ call' = [ op |-> "get_page_raw_content", title |-> page_title ]
            /\ UNCHANGED << items, group_counters, group_counts, collected_recipes,
                            run_ids, first_id >>
       ELSE IF page_title \in skip_titles
       THEN /\ db_ok
            /\ call' = [ op |-> "skip", title |-> page_title ]
            /\ UNCHANGED << items, group_counters, group_counts, collected_recipes,
                            run_ids, first_id >>
       ELSE StorePage(page_title, db_ok)
    /\ UNCHANGED << refinery_recipes, refinery_ingredients, cooking_recipes,
                    cooking_ingredients, pc, recipe_idx, runs, recipe_saved,
                    saved, prev,
                    files, toolVars >>

----------------------------------------------------------------------------
(* The export: export_group_from_db, export_refinery_recipes and           *)
(* export_cooking_recipes.  ORDER BY of a TEXT column compares with the    *)
(* BINARY collation, byte by byte.  Rows that ORDER BY leaves equal, and   *)
(* the rows of a SELECT without ORDER BY, come in the order of the scan    *)
(* (idx_title holds the rows of one title in rowid order, the ingredient   *)
(* tables are scanned in rowid order), the same on every call while the    *)
(* database is unchanged.                                                  *)

\* the characters of the model in ASCII order
AsciiOrder == << " ", "%", ",", "-", ".", "0", "1", "2", "3", "4", "5", "6", "7",
                 "8", "9", ";", "A", "B", "C", "D", "E", "F", "G", "H", "I", "J",
                 "K", "L", "M", "N", "O", "P", "Q", "R", "S", "T", "U", "V", "W",
                 "X", "Y", "Z", "_", "a", "b", "c", "d", "e", "f", "g", "h", "i",
                 "j", "k", "l", "m", "n", "o", "p", "q", "r", "s", "t", "u", "v",
                 "w", "x", "y", "z" >>

CharCode == [ c \in { AsciiOrder[i] : i \in 1..Len(AsciiOrder) } |->
                CHOOSE i \in 1..Len(AsciiOrder) : AsciiOrder[i] = c ]

\* a < b for two TEXT values
TextLess(a, b) ==
    LET n    == IF Len(a) < Len(b) THEN Len(a) ELSE Len(b)
        diff == { k \in 1..n : a[k] # b[k] }
    IN IF diff = {} THEN Len(a) < Len(b)
       ELSE LET k == CHOOSE d \in diff : \A e \in diff : d <= e
            IN CharCode[a[k]] < CharCode[b[k]]

OrderBy_scan(rows, column) == rows

\* SELECT ... ORDER BY column: the rows (given in scan order) in ascending
\* order of the column, equal values in scan order
OrderBy(rows, column) ==
    LET before(j, i) == \/ TextLess(rows[j][column], rows[i][column])
                        \/ (rows[j][column] = rows[i][column] /\ j < i)
        rank(i) == Cardinality({ j \in 1..Len(rows) : before(j, i) }) + 1
    IN [ p \in 1..Len(rows) |-> rows[CHOOSE i \in 1..Len(rows) : rank(i) = p] ]

\* the list export_group_from_db dumps (lines 885-911); the infobox and
\* categories columns always hold the text json.dumps has written
export_group_from_db(table, group) ==
    LET rows == OrderBy(SelectSeq(table, LAMBDA r : r.group_name = group), "title")
    IN [ i \in 1..Len(rows) |->
           [ id |-> rows[i].id, title |-> rows[i].title,
             summary |-> rows[i].summary,
             game_description |-> rows[i].game_description,
             source_info |-> rows[i].source_info, use_info |-> rows[i].use_info,
             release_history |-> rows[i].release_history,
             additional_info |-> rows[i].additional_info,
             fishing_info |-> rows[i].fishing_info,
             progression_info |-> rows[i].progression_info,
             type |-> rows[i].type, value |-> rows[i].value,
             infobox |-> JsonLoads(rows[i].infobox),
             categories |-> JsonLoads(rows[i].categories) ] ]

\* LEFT JOIN items ON ... = items.id, then  title or id
TitleOrId(table, id) ==
    LET hit == { k \in 1..Len(table) : table[k].id = id } IN
    IF hit = {} THEN id
    ELSE LET title == table[CHOOSE k \in hit : TRUE].title
         IN IF title = None \/ title = << >> THEN id ELSE title

\* str(x) of a float: the text of its repr, a string where x is a number
StrOfFloat(x) == [ str |-> x ]

\* the list export_refinery_recipes / export_cooking_recipes dumps (lines
\* 925-964, 978-1017); the output quantity is the constant 1
ExportRecipes(recipes, ingredients, table) ==
    LET rows == OrderBy(recipes, "recipe_id")
    IN [ i \in 1..Len(rows) |->
           LET ings == SelectSeq(ingredients,
                                 LAMBDA g : g.recipe_id = rows[i].recipe_id)
           IN [ id |-> rows[i].recipe_id,
                inputs |-> [ j \in 1..Len(ings) |->
                               [ id |-> ings[j].ingredient_item_id,
                                 name |-> TitleOrId(table, ings[j].ingredient_item_id),
                                 quantity |-> ings[j].quantity ] ],
                output |-> [ id |-> rows[i].output_item_id,
                             name |-> TitleOrId(table, rows[i].output_item_id),
                             quantity |-> 1 ],
                time |-> StrOfFloat(rows[i].time_seconds),
                operation |-> rows[i].operation ] ]

export_refinery_recipes(db) ==
    ExportRecipes(db.refinery_recipes, db.refinery_ingredients, db.items)

export_cooking_recipes(db) ==
    ExportRecipes(db.cooking_recipes, db.cooking_ingredients, db.items)

\* TARGET_GROUPS[group]
TargetFile(group) ==
    CASE group = "buildings"         -> "Buildings.json"
      [] group = "cooking"           -> "Cooking.json"
      [] group = "curiosities"       -> "Curiosities.json"
      [] group = "fish"              -> "Fish.json"
      [] group = "nutrientProcessor" -> "NutrientProcessor.json"
      [] group = "others"            -> "Others.json"
      [] group = "products"          -> "Products.json"
      [] group = "rawMaterials"      -> "RawMaterials.json"
      [] group = "refinery"          -> "Refinery.json"
      [] group = "technology"        -> "Technology.json"
      [] group = "trade"             -> "Trade.json"

WriteFile_append(fs, name, content) ==
    [ n \in DOMAIN fs \cup { name } |->
        IF n # name THEN fs[n]
        ELSE IF name \in DOMAIN fs THEN JsonDumps(JsonLoads(fs[name]) \o content)
        ELSE JsonDumps(content) ]

\* open(output_file, 'w') and json.dump
WriteFile(fs, name, content) ==
    [ n \in DOMAIN fs \cup { name } |-> IF n = name THEN JsonDumps(content) ELSE fs[n] ]

\* the export step of main() (lines 1347-1359): the groups that counted an
\* item in this run, then the two recipe files
FilesAfterExport(fs, db, counts) ==
    LET exported == { g \in TARGET_GROUPS : counts[g] > 0 }
        groups   == [ n \in DOMAIN fs \cup { TargetFile(g) : g \in exported } |->
                        IF \E g \in exported : TargetFile(g) = n
                        THEN JsonDumps(export_group_from_db(db.items,
                                 CHOOSE g \in exported : TargetFile(g) = n))
                        ELSE fs[n] ]
    IN WriteFile(WriteFile(groups, "Refinery.json", export_refinery_recipes(db)),
                 "NutrientProcessor.json", export_cooking_recipes(db))

\* the recipes are saved while pages are still to visit
PageLoopExhausted_early == TRUE

\* the for loop of line 1169 has visited every page
PageLoopExhausted == todo = {}

\* the page loop is over: main() goes on to the collected recipes
PageLoopDone ==
    /\ pc = "pages" /\ PageLoopExhausted
    /\ pc' = "recipes" /\ recipe_idx' = 1
    /\ UNCHANGED << dbVars, group_counters, collected_recipes, todo, runs,
                    group_counts, faults, call, recipe_saved, first_id, run_ids,
                    saved, prev,
                    files, toolVars >>

ResolverFaults == { {}, { "exact" }, { "ci" }, { "like" }, { "exact", "ci", "like" } }

\* the observers' record of the successful recipe saves: one entry per
\* (kind, item id), holding the lines last saved under it
Remember(set, kind, item_id, lines) ==
    { e \in set : ~ (e.kind = kind /\ e.item_id = item_id) }
        \cup { [ kind |-> kind, item_id |-> item_id, lines |-> lines ] }

\* one iteration of the loop over collected_recipes (lines 1326-1335), in
\* the insertion order of the dict.  fault: the resolver queries that fail
\* during the iteration; ref_ok, cook_ok: the outcome of the two save calls
ProcessRecipes(fault, ref_ok, cook_ok) ==
    /\ pc = "recipes" /\ recipe_idx <= Len(collected_recipes)
    /\ LET item_id == collected_recipes[recipe_idx].key
           recipes == collected_recipes[recipe_idx].value
           n_faults == (IF fault = {} THEN 0 ELSE 1) + (IF ref_ok THEN 0 ELSE 1)
                       + (IF cook_ok THEN 0 ELSE 1)
           ref == save_refinery_recipes(item_id, recipes.refinery,
                      [ recipes |-> refinery_recipes, ingredients |-> refinery_ingredients ],
                      items, fault, ref_ok)
           cook == save_cooking_recipes(item_id, recipes.cooking,
                      [ recipes |-> cooking_recipes, ingredients |-> cooking_ingredients ],
                      items, fault, cook_ok)
       IN /\ n_faults <= 1 /\ faults + n_faults <= MaxFaults
          /\ ref_ok \/ recipes.refinery # << >>
          /\ cook_ok \/ recipes.cooking # << >>
          /\ faults' = faults + n_faults
          /\ refinery_recipes' = ref.recipes
          /\ refinery_ingredients' = ref.ingredients
          /\ cooking_recipes' = cook.recipes
          /\ cooking_ingredients' = cook.ingredients
          /\ call' = [ op |-> "save_recipes", item_id |-> item_id,
                       refinery |-> recipes.refinery, cooking |-> recipes.cooking,
                       fault |-> fault, ref_ok |-> ref_ok, cook_ok |-> cook_ok,
                       ref_again |-> [ kind |-> "refinery", item_id |-> item_id,
                                       lines |-> recipes.refinery ] \in saved,
                       cook_again |-> [ kind |-> "cooking", item_id |-> item_id,
                                        lines |-> recipes.cooking ] \in saved ]
          /\ saved' =
               LET s1 == IF ref_ok /\ recipes.refinery # << >>
                         THEN Remember(saved, "refinery", item_id, recipes.refinery)
                         ELSE saved
               IN IF cook_ok /\ recipes.cooking # << >>
                  THEN Remember(s1, "cooking", item_id, recipes.cooking)
                  ELSE s1
    /\ prev' = [ items |-> items, refinery_recipes |-> refinery_recipes,
                 refinery_ingredients |-> refinery_ingredients,
                 cooking_recipes |-> cooking_recipes,
                 cooking_ingredients |-> cooking_ingredients ]
    /\ recipe_saved' = TRUE
    /\ recipe_idx' = recipe_idx + 1
    /\ UNCHANGED << items, group_counters, collected_recipes, pc, todo, runs,
                    group_counts, first_id, run_ids,
                    files, toolVars >>

\* the recipe loop is over: main() goes on to the export
RecipesDone ==
    /\ pc = "recipes" /\ recipe_idx > Len(collected_recipes)
    /\ pc' = "export"
    /\ UNCHANGED << dbVars, group_counters, collected_recipes, todo, recipe_idx,
                    runs, group_counts, faults, call, recipe_saved, first_id,
                    run_ids, saved, prev, files, toolVars >>

\* the export step (lines 1340-1361); the run of main() ends
ExportAll ==
    /\ pc = "export"
    /\ LET db == [ items |-> items, refinery_recipes |-> refinery_recipes,
                   refinery_ingredients |-> refinery_ingredients,
                   cooking_recipes |-> cooking_recipes,
                   cooking_ingredients |-> cooking_ingredients ]
       IN files' = FilesAfterExport(files, db, group_counts)
    /\ UNCHANGED toolVars
    /\ call' = [ op |-> "export_all" ]
    /\ pc' = "idle"
    /\ UNCHANGED << dbVars, group_counters, collected_recipes, todo, recipe_idx,
                    runs, group_counts, faults, recipe_saved, first_id, run_ids,
                    saved, prev >>

Next ==
    \/ \E hard_reset \in BOOLEAN : StartRun(hard_reset)
    \/ \E page_title \in Pages, fetched \in BOOLEAN, db_ok \in BOOLEAN :
           ProcessPage(page_title, fetched, db_ok)
    \/ PageLoopDone
    \/ \E fault \in ResolverFaults, ref_ok \in BOOLEAN, cook_ok \in BOOLEAN :
           ProcessRecipes(fault, ref_ok, cook_ok)
    \/ RecipesDone
    \/ ExportAll

Spec == Init /\ [][Next]_vars

----------------------------------------------------------------------------
(* classify_item called on its own: the argument is drawn from the items   *)
(* the parsers can produce (an infobox with or without each key, a         *)
(* description that is None or text, any title, any category list).        *)

Optional(key, values) == { << >> } \cup { [ k \in { key } |-> v ] : v \in values }

\* the union of dicts with disjoint keys
Merge(a, b) == [ k \in DOMAIN a \cup DOMAIN b |-> IF k \in DOMAIN a THEN a[k] ELSE b[k] ]

TypeInputs == { w_Element, w_Edible_Product, w_Technology_Module,
                w_Construction_Module, w_Trade_commodity }
CategoryInputs == { w_Consumable, w_Building, w_Tradeable }
UsedInputs == { w_Cooking, w_Crafting__Upgrading }
DescriptionInputs == { None, w_Edible_food, w_base_building_trade }
TitleInputs == { w_Carbon, w_Scanner_Room, w_Nutrient_Processor, w_Glass,
                 w_Fossil, w_Fish_Bait }
CategoriesInputs == { << >>, << w_Raw_Materials >>, << w_Technology, w_Curiosity >> }

InfoboxInputs ==
    { Merge(t, Merge(c, u)) : t \in Optional("type", TypeInputs),
                              c \in Optional("category", CategoryInputs),
                              u \in Optional("used", UsedInputs) }

ClassifyInputs ==
    { [ title |-> t, description |-> d, infobox |-> i, categories |-> c ] :
        t \in TitleInputs, d \in DescriptionInputs, i \in InfoboxInputs,
        c \in CategoriesInputs }

Quiet ==
    /\ items = << >> /\ refinery_recipes = << >> /\ refinery_ingredients = << >>
    /\ cooking_recipes = << >> /\ cooking_ingredients = << >>
    /\ group_counters = InitCounters
    /\ collected_recipes = << >>
    /\ todo = {} /\ recipe_idx = 1 /\ runs = 0
    /\ group_counts = [ g \in TARGET_GROUPS |-> 0 ]
    /\ faults = 0
    /\ recipe_saved = FALSE
    /\ first_id = [ t \in Pages |-> None ]
    /\ run_ids = << >>
    /\ saved = {}
    /\ prev = EmptyDb
    /\ files = NoFiles
    /\ item_id_cache = << >> /\ item_name_to_id = << >> /\ seen_items = {}

InitClassify ==
    /\ Quiet
    /\ pc = "call"
    /\ call \in { [ op |-> "classify_item", item_data |-> d, result |-> "pending" ] :
                    d \in ClassifyInputs }

Classify ==
    /\ pc = "call" /\ call.op = "classify_item"
    /\ call' = [ call EXCEPT !.result = classify_item(call.item_data) ]
    /\ pc' = "return"
    /\ UNCHANGED << dbVars, group_counters, collected_recipes, todo, recipe_idx,
                    runs, group_counts, faults, recipe_saved, first_id, run_ids,
                    saved, prev,
                    files, toolVars >>

SpecClassify == InitClassify /\ [][Classify]_vars

----------------------------------------------------------------------------
(* The scraper's methods called one at a time on one database: items are   *)
(* stored under generated ids (a title may be stored again under the next  *)
(* id, as it is when a later run meets the pages in another order), names  *)
(* are resolved, and the first recipe line of item raw1 is saved.  Every   *)
(* table state is one the methods have produced.                           *)

MaxApiItems == 2

ApiTitles == { w_Carbon, w_CARBON, w_Carbon_Ore }
ApiNames == { << >>, w_Carbon, w_carbon, w_Carb, w_Carbon_Ore_Dust, w_Car_on }
NoFault == { }
SaveFaults == { NoFault, { "exact", "ci", "like" } }

ApiItem(title) == [ title |-> title, infobox |-> << >>, categories |-> << >> ]
ApiGroup == [ t \in ApiTitles |-> classify_item(ApiItem(t)) ]

CurrentDb == [ items |-> items, refinery_recipes |-> refinery_recipes,
               refinery_ingredients |-> refinery_ingredients,
               cooking_recipes |-> cooking_recipes,
               cooking_ingredients |-> cooking_ingredients ]

InitApi == Quiet /\ pc = "api" /\ call = NoCall

\* classify, generate the id, save: lines 1295-1300 for one item
ApiStoreItem(title) ==
    LET group     == ApiGroup[title]
        counters  == CountersAfter(group_counters, group)
        item_id   == ItemIdOf(counters, group)
        item_data == [ k \in DOMAIN ApiItem(title) \cup { "id" } |->
                         IF k = "id" THEN item_id ELSE ApiItem(title)[k] ]
    IN /\ pc = "api" /\ group_counters[group] < MaxApiItems
       /\ group_counters' = counters
       /\ items' = save_item_to_db(items, item_data, group, TRUE)
       /\ call' = [ op |-> "save_item_to_db", item_data |-> item_data,
                    group |-> group, result |-> TRUE,
                    old |-> SelectSeq(items, LAMBDA r : r.id = item_id) ]
       /\ UNCHANGED << refinery_recipes, refinery_ingredients, cooking_recipes,
                       cooking_ingredients, collected_recipes, pc, todo,
                       recipe_idx, runs, group_counts, faults, recipe_saved,
                       first_id, run_ids, saved, prev,
                       files, toolVars >>

ItemsAfterResolve_insert(table, name, fault) ==
    LET id == resolve_item_name_to_id(table, name, fault) IN
    IF \E i \in 1..Len(table) : table[i].id = id THEN table
    ELSE Append(table, ItemRow([ id |-> id, title |-> name, infobox |-> << >>,
                                 categories |-> << >> ], "others"))

\* the items table after _resolve_item_name_to_id: its statements are
\* SELECTs, no row is written
ItemsAfterResolve(table, name, fault) == table

ApiResolve(name, fault) ==
    /\ pc = "api"
    /\ LET again == /\ call.op = "_resolve_item_name_to_id"
                    /\ call.name = name /\ call.fault = fault
       IN call' = [ op |-> "_resolve_item_name_to_id", name |-> name, fault |-> fault,
                    result |-> resolve_item_name_to_id(items, name, fault),
                    again |-> again,
                    before |-> IF again THEN call.result ELSE None ]
    /\ items' = ItemsAfterResolve(items, name, fault)
    /\ prev' = CurrentDb
    /\ UNCHANGED << refinery_recipes, refinery_ingredients, cooking_recipes,
                    cooking_ingredients, group_counters, collected_recipes, pc,
                    todo, recipe_idx, runs, group_counts, faults, recipe_saved,
                    first_id, run_ids, saved,
                    files, toolVars >>

\* save_refinery_recipes of the line  name,2;1;1.5%Op  into an empty recipe table
ApiSaveRefinery(name, fault) ==
    /\ pc = "api" /\ refinery_recipes = << >>
    /\ LET line == name \o << ",", "2", ";", "1", ";", "1", ".", "5", "%", "O", "p" >>
           db   == save_refinery_recipes(w_raw \o << "1" >>, << line >>,
                       [ recipes |-> refinery_recipes,
                         ingredients |-> refinery_ingredients ],
                       items, fault, TRUE)
       IN /\ refinery_recipes' = db.recipes
          /\ refinery_ingredients' = db.ingredients
          /\ call' = [ op |-> "save_refinery_recipes", name |-> name, fault |-> fault ]
    /\ prev' = CurrentDb
    /\ UNCHANGED << items, cooking_recipes, cooking_ingredients, group_counters,
                    collected_recipes, pc, todo, recipe_idx, runs, group_counts,
                    faults, recipe_saved, first_id, run_ids, saved,
                    files, toolVars >>

NextApi ==
    \/ \E title \in ApiTitles : ApiStoreItem(title)
    \/ \E name \in ApiNames, fault \in ResolverFaults : ApiResolve(name, fault)
    \/ \E name \in ApiNames, fault \in SaveFaults : ApiSaveRefinery(name, fault)

SpecApi == InitApi /\ [][NextApi]_vars

----------------------------------------------------------------------------
(* save_refinery_recipes and save_cooking_recipes called on their own, on  *)
(* a database whose items table save_item_to_db has filled, with the line  *)
(* lists parse_refinery_recipes and parse_cooking_recipes can return       *)
(* (any text between two "|" of a template is a line).                     *)

MaxCalls == 2

\* Carbon,50;1;300%Condense   and   Carbon,1;Salt,2;Carbon Ore,3;1;2.5%  Smelt
l_condense == w_Carbon \o << ",", "5", "0", ";", "1", ";", "3", "0", "0", "%" >>
              \o w_Condense
l_three    == w_Carbon \o << ",", "1", ";" >> \o w_Salt \o << ",", "2", ";" >>
              \o w_Carbon_Ore \o << ",", "3", ";", "1", ";", "2", ".", "5", "%", " " >>
              \o w_Smelt

\* "Carbon,1;1; 1.5 %Smelt": blanks around the time
l_spaced == w_Carbon \o << ",", "1", ";", "1", ";", " ", "1", ".", "5", " ", "%" >>
               \o w_Smelt

LineLists == { << l_smelt >>, << l_condense >>, << l_bad, l_crush >>,
               << l_smelt, l_bad, l_three >>, << l_bake, l_condense >>,
               << l_bad >>, << l_spaced >> }

\* the items tables: item_data stored one after the other by save_item_to_db
StoredAs(table, title, n) ==
    save_item_to_db(table,
        [ k \in DOMAIN ApiItem(title) \cup { "id" } |->
            IF k = "id" THEN w_raw \o NatToStr(n) ELSE ApiItem(title)[k] ],
        "rawMaterials", TRUE)

ItemTables == { << >>,
                StoredAs(<< >>, w_Carbon, 1),
                StoredAs(StoredAs(<< >>, w_Carbon, 1), w_Carbon_Ore, 2) }

LineItemIds == { w_raw \o << "1" >>, w_raw \o << "2" >> }

InitLines ==
    /\ items \in ItemTables
    /\ refinery_recipes = << >> /\ refinery_ingredients = << >>
    /\ cooking_recipes = << >> /\ cooking_ingredients = << >>
    /\ group_counters = InitCounters
    /\ collected_recipes = << >>
    /\ todo = {} /\ recipe_idx = 1 /\ runs = 0
    /\ group_counts = [ g \in TARGET_GROUPS |-> 0 ]
    /\ faults = 0
    /\ recipe_saved = FALSE
    /\ first_id = [ t \in Pages |-> None ]
    /\ run_ids = << >>
    /\ saved = {}
    /\ prev = EmptyDb
    /\ files = NoFiles
    /\ item_id_cache = << >> /\ item_name_to_id = << >> /\ seen_items = {}
    /\ pc = "lines" /\ call = NoCall

\* the parts of a line reach the INSERT statements (line 710, 780)
HasStatements(line) == Len(Split(line, ";")) >= 3

\* one call of save_refinery_recipes (kind "refinery") or
\* save_cooking_recipes (kind "cooking").  err = 0: no statement fails;
\* err = k: a statement of line k raises sqlite3.Error
SaveCall(kind, item_id, recipe_lines, err) ==
    /\ pc = "lines" /\ recipe_idx <= MaxCalls
    /\ err > 0 => HasStatements(recipe_lines[err])
    /\ recipe_idx' = recipe_idx + 1
    /\ prev' = CurrentDb
    /\ IF kind = "refinery"
       THEN LET db == save_refinery_recipes(item_id, recipe_lines,
                          [ recipes |-> refinery_recipes,
                            ingredients |-> refinery_ingredients ],
                          items, {}, err = 0)
            IN /\ refinery_recipes' = db.recipes
               /\ refinery_ingredients' = db.ingredients
               /\ UNCHANGED << cooking_recipes, cooking_ingredients >>
       ELSE LET db == save_cooking_recipes(item_id, recipe_lines,
                          [ recipes |-> cooking_recipes,
                            ingredients |-> cooking_ingredients ],
                          items, {}, err = 0)
            IN /\ cooking_recipes' = db.recipes
               /\ cooking_ingredients' = db.ingredients
               /\ UNCHANGED << refinery_recipes, refinery_ingredients >>
    /\ call' = [ op |-> "save_lines", kind |-> kind, item_id |-> item_id,
                 lines |-> recipe_lines, err |-> err ]
    /\ UNCHANGED << items, group_counters, collected_recipes, pc, todo, runs,
                    group_counts, faults, recipe_saved, first_id, run_ids, saved,
                    files, toolVars >>

NextLines ==
    \E kind \in { "refinery", "cooking" }, item_id \in LineItemIds,
       recipe_lines \in LineLists :
        \E err \in 0..Len(recipe_lines) : SaveCall(kind, item_id, recipe_lines, err)

SpecLines == InitLines /\ [][NextLines]_vars

----------------------------------------------------------------------------
(* The export methods called on their own, after runs of main(), on the    *)
(* database the runs have left, any number of times, each call writing     *)
(* the file out.json.                                                      *)

ExportCalls ==
    { [ fn |-> "export_group_from_db", group |-> g ] : g \in TARGET_GROUPS }
        \cup { [ fn |-> "export_refinery_recipes", group |-> "" ],
               [ fn |-> "export_cooking_recipes", group |-> "" ] }

ExportCall(e) ==
    /\ pc \in { "idle", "exported" } /\ runs > 0
    /\ LET content == CASE e.fn = "export_group_from_db" ->
                             export_group_from_db(items, e.group)
                        [] e.fn = "export_refinery_recipes" ->
                             export_refinery_recipes(CurrentDb)
                        [] e.fn = "export_cooking_recipes" ->
                             export_cooking_recipes(CurrentDb)
           again   == call.op = "export" /\ call.fn = e.fn /\ call.group = e.group
       IN /\ files' = WriteFile(files, "out.json", content)
          /\ call' = [ op |-> "export", fn |-> e.fn, group |-> e.group,
                       content |-> content, again |-> again,
                       before |-> IF again THEN files["out.json"]
                                  ELSE JsonDumps(<< >>) ]
    /\ pc' = "exported"
    /\ UNCHANGED << dbVars, group_counters, collected_recipes, todo, recipe_idx,
                    runs, group_counts, faults, recipe_saved, first_id, run_ids,
                    saved, prev, toolVars >>

NextExport == Next \/ \E e \in ExportCalls : ExportCall(e)

SpecExport == Init /\ [][NextExport]_vars

----------------------------------------------------------------------------
(* RefineryExtractor (src/extractors/refinery_extractor.py): the item id   *)
(* cache, the parsers of the PoC-Refine template and of the older          *)
(* Refinery / Refine templates, the formatter.  A Python dict is the       *)
(* sequence of its entries in insertion order; a recipe is a record, and   *)
(* an Optional[Dict] is the sequence of no record (None) or one record.    *)

DictHas(d, key) == \E i \in 1..Len(d) : d[i].key = key

DictValue(d, key) == d[CHOOSE i \in 1..Len(d) : d[i].key = key].value

IsAlnumChar(c) ==
    \/ IsDigitChar(c)
    \/ \E i \in 1..26 : LowerChars[i] = c \/ UpperChars[i] = c

\* re.sub(r'[^a-zA-Z0-9]', '', s)
AlnumOnly(s) == SelectSeq(s, IsAlnumChar)

\* the body of the loop of load_item_ids (lines 53-59)
CacheRow(cache, title, item_id) ==
    DictSet(DictSet(DictSet(cache, title, item_id), StrLower(title), item_id),
            AlnumOnly(StrLower(title)), item_id)

\* load_item_ids over the rows of SELECT title, id FROM items, in the order
\* the table is scanned; the dict is not emptied first
RECURSIVE load_item_ids(_, _)
load_item_ids(cache, rows) ==
    IF rows = << >> THEN cache
    ELSE load_item_ids(CacheRow(cache, Head(rows).title, Head(rows).id), Tail(rows))

\* the partial match of lines 88-90: the first entry, in insertion order
PartialMatch(cache, item_name) ==
    LET low  == StrLower(item_name)
        hits == { i \in 1..Len(cache) :
                    Contains(low, cache[i].key) \/ Contains(cache[i].key, low) }
    IN IF hits = {} THEN None
       ELSE cache[CHOOSE i \in hits : \A j \in hits : i <= j].value

\* get_item_id (lines 69-93)
get_item_id(cache, item_name) ==
    IF item_name = << >> THEN None
    ELSE IF DictHas(cache, item_name) THEN DictValue(cache, item_name)
    ELSE IF DictHas(cache, StrLower(item_name))
         THEN DictValue(cache, StrLower(item_name))
    ELSE IF DictHas(cache, AlnumOnly(StrLower(item_name)))
         THEN DictValue(cache, AlnumOnly(StrLower(item_name)))
    ELSE PartialMatch(cache, item_name)

\* s.rsplit(sep, 1) of a string that holds sep
RSplit1(s, sep) ==
    LET i == CHOOSE j \in 1..Len(s) : s[j] = sep /\ \A k \in (j + 1)..Len(s) : s[k] # sep
    IN << SubSeq(s, 1, i - 1), SubSeq(s, i + 1, Len(s)) >>

\* the index of the first occurrence of sub in s at or after from, 0 if none
FindFrom(sub, s, from) ==
    LET at == { i \in from..(Len(s) - Len(sub) + 1) :
                  SubSeq(s, i, i + Len(sub) - 1) = sub }
    IN IF at = {} THEN 0 ELSE CHOOSE i \in at : \A j \in at : i <= j

UpperChar(c) ==
    IF \E i \in 1..26 : LowerChars[i] = c
    THEN UpperChars[CHOOSE i \in 1..26 : LowerChars[i] = c] ELSE c

IsLetter(c) == \E i \in 1..26 : LowerChars[i] = c \/ UpperChars[i] = c

\* s.title()
StrTitle(s) ==
    [ i \in 1..Len(s) |->
        IF i = 1 \/ ~ IsLetter(s[i - 1]) THEN UpperChar(s[i]) ELSE LowerChar(s[i]) ]

\* re.search(word + r'\s+([^,\s]+)', s): group 1 of the first match, None
\* without a match
WordThenToken(word, s) ==
    LET Start(i) == i + Len(word)
        Tok(i)   == CHOOSE j \in Start(i)..(Len(s) + 1) :
                        /\ \A k \in Start(i)..(j - 1) : s[k] \in Whitespace
                        /\ (j = Len(s) + 1 \/ s[j] \notin Whitespace)
        Ok(i)    == /\ SubSeq(s, i, i + Len(word) - 1) = word
                    /\ Tok(i) > Start(i) /\ Tok(i) <= Len(s) /\ s[Tok(i)] # ","
        at       == { i \in 1..(Len(s) - Len(word) + 1) : Ok(i) }
    IN IF at = {} THEN None
       ELSE LET i == CHOOSE a \in at : \A b \in at : a <= b
                j == Tok(i)
                e == CHOOSE m \in j..Len(s) :
                        /\ \A k \in j..m : s[k] \notin Whitespace /\ s[k] # ","
                        /\ (m = Len(s) \/ s[m + 1] \in Whitespace \/ s[m + 1] = ",")
            IN SubSeq(s, j, e)

\* operation_mappings, in the order of the dict (lines 242-248)
operation_mappings ==
    << [ key |-> w_condense_carbon,  value |-> w_Condensed_Carbon ],
       [ key |-> w_oxygenate_carbon, value |-> w_Oxygen ],
       [ key |-> w_feed_microbes,    value |-> w_Condensed_Carbon ],
       [ key |-> w_algal_processing, value |-> w_Condensed_Carbon ],
       [ key |-> w_harness_energy,   value |-> w_Condensed_Carbon ] >>

\* infer_output_from_operation (lines 237-264)
infer_output_from_operation(operation) ==
    LET low  == StrLower(operation)
        hits == { i \in 1..Len(operation_mappings) :
                    Contains(operation_mappings[i].key, low) }
    IN IF hits # {}
       THEN operation_mappings[CHOOSE i \in hits : \A j \in hits : i <= j].value
       ELSE IF WordThenToken(w_create, low) # None
            THEN StrTitle(WordThenToken(w_create, low))
       ELSE IF WordThenToken(w_into, low) # None
            THEN StrTitle(WordThenToken(w_into, low))
       ELSE None

\* the inputs of a PoC-Refine line (lines 171-194): a component whose
\* quantity is no integer is left out, an unknown name gets a placeholder
RECURSIVE PocInputs(_, _)
PocInputs(cache, input_parts) ==
    IF input_parts = << >> THEN << >>
    ELSE LET part == Head(input_parts)
             rest == PocInputs(cache, Tail(input_parts))
         IN IF ~ Contains(<< "," >>, part) THEN rest
            ELSE LET two       == RSplit1(part, ",")
                     item_name == Strip(two[1])
                     item_id   == get_item_id(cache, item_name)
                 IN IF ~ IsDigit(Strip(two[2])) THEN rest
                    ELSE << [ id |-> IF item_id # None /\ item_id # << >> THEN item_id
                                     ELSE MissingId(item_name),
                              name |-> item_name,
                              quantity |-> IntOf(Strip(two[2])) ] >> \o rest

\* parse_poc_refine_line (lines 156-235): the recipe, or no recipe
parse_poc_refine_line(cache, line) ==
    LET parts == Split(line, ";") IN
    IF Len(parts) < 3 THEN << >>
    ELSE LET inputs == PocInputs(cache, SubSeq(parts, 1, Len(parts) - 2))
             last   == Strip(parts[Len(parts)])
             two    == Split1(last, "%")
             time_value == IF Len(two) = 2 THEN Strip(two[1]) ELSE last
             operation  == IF Len(two) = 2 THEN Strip(two[2]) ELSE w_Refining_Operation
             output_item_name == infer_output_from_operation(operation)
             found  == IF output_item_name = None THEN None
                       ELSE get_item_id(cache, output_item_name)
             output_item_id ==
                 IF (found = None \/ found = << >>) /\ output_item_name # None
                 THEN MissingId(output_item_name) ELSE found
         IN IF ~ IsDigit(Strip(parts[Len(parts) - 1])) THEN << >>
            ELSE IF inputs # << >> /\ output_item_id # None /\ output_item_id # << >>
            THEN << [ inputs |-> inputs,
                   output |-> << [ id |-> output_item_id,
                                name |-> OrElse(output_item_name, w_Unknown_Output),
                                quantity |-> IntOf(Strip(parts[Len(parts) - 1])) ] >>,
                   time |-> time_value,
                   operation |-> w_Requested_Operation__ \o operation ] >>
            ELSE << >>

\* parse_poc_refine_template (lines 139-154): one recipe per line that
\* parses, in the order of the lines
RECURSIVE PocLines(_, _)
PocLines(cache, lines) ==
    IF lines = << >> THEN << >>
    ELSE LET line == Strip(Head(lines))
             rest == PocLines(cache, Tail(lines))
         IN IF line = << >> \/ line[1] = "#" THEN rest
            ELSE LET recipe == parse_poc_refine_line(cache, line)
                 IN recipe \o rest

parse_poc_refine_template(cache, template_content) ==
    PocLines(cache, Split(template_content, "|"))

\* the text after position k is blanks followed by digits up to the end
BlanksThenDigits(t, k) == IsDigit(Strip(SubSeq(t, k + 1, Len(t))))

\* the first position from 2 on that holds one of the marks and is
\* followed by blanks and digits only, 0 if none
MarkBeforeQuantity(t, marks) ==
    LET at == { k \in 2..Len(t) : t[k] \in marks /\ BlanksThenDigits(t, k) }
    IN IF at = {} THEN 0 ELSE CHOOSE k \in at : \A j \in at : k <= j

\* the length of the run of digits that starts the text
LeadingDigits(t) ==
    CHOOSE n \in 0..Len(t) :
        /\ \A i \in 1..n : IsDigitChar(t[i])
        /\ (n = Len(t) \/ ~ IsDigitChar(t[n + 1]))

\* parse_item_quantity (lines 322-352): "Item,50", "Item x50", "Item *50",
\* "50 Item", "Item"; the pair << name, quantity >>
parse_item_quantity(text) ==
    IF text = << >> THEN << None, 1 >>
    ELSE LET t     == Strip(text)
             comma == MarkBeforeQuantity(t, { "," })
             x     == MarkBeforeQuantity(t, { "x", "X" })
             star  == MarkBeforeQuantity(t, { "*" })
             n     == LeadingDigits(t)
             Item(k) == << Strip(SubSeq(t, 1, k - 1)),
                           IntOf(Strip(SubSeq(t, k + 1, Len(t)))) >>
         IN IF comma > 0 THEN Item(comma)
            ELSE IF x > 0 THEN Item(x)
            ELSE IF star > 0 THEN Item(star)
            ELSE IF n > 0 /\ n < Len(t)
                 THEN << Strip(SubSeq(t, n + 1, Len(t))), IntOf(SubSeq(t, 1, n)) >>
            ELSE IF n > 1
                 THEN << SubSeq(t, n, n), IntOf(SubSeq(t, 1, n - 1)) >>
            ELSE << t, 1 >>

input_keys  == { w_input, w_input1, w_in1, w_input2, w_in2 }
output_keys == { w_output, w_out, w_result }
time_keys   == { w_time, w_duration }
operation_keys == { w_operation, w_type, w_process }

\* the loop over the parameters of a Refinery / Refine template (lines
\* 280-310)
RECURSIVE TemplateParams(_, _)
TemplateParams(recipe, parts) ==
    IF parts = << >> THEN recipe
    ELSE LET part == Strip(Head(parts)) IN
         IF ~ Contains(<< "=" >>, part) THEN TemplateParams(recipe, Tail(parts))
         ELSE LET two   == Split1(part, "=")
                  key   == StrLower(Strip(two[1]))
                  value == Strip(two[2])
                  iq    == parse_item_quantity(value)
                  named == iq[1] # None /\ iq[1] # << >>
                  next  ==
                    IF key \in input_keys
                    THEN IF named
                         THEN [ recipe EXCEPT !.inputs =
                                  Append(@, [ item |-> iq[1], quantity |-> iq[2] ]) ]
                         ELSE recipe
                    ELSE IF key \in output_keys
                    THEN IF named
                         THEN [ recipe EXCEPT !.output =
                                  << [ item |-> iq[1], quantity |-> iq[2] ] >> ]
                         ELSE recipe
                    ELSE IF key \in time_keys THEN [ recipe EXCEPT !.time = value ]
                    ELSE IF key \in operation_keys
                    THEN [ recipe EXCEPT !.operation = value ]
                    ELSE recipe
              IN TemplateParams(next, Tail(parts))

\* parse_refinery_template (lines 266-320): the recipe, or no recipe
parse_refinery_template(template_content) ==
    LET recipe == TemplateParams([ inputs |-> << >>, output |-> << >>,
                                   time |-> None, operation |-> None ],
                                 Split(template_content, "|"))
    IN IF recipe.inputs # << >> /\ recipe.output # << >> THEN << recipe >> ELSE << >>

\* a page is the sequence of its templates {{name|body}}
Template(name, body) == [ name |-> name, body |-> body ]

\* the name of the template is the word, letters without case, blanks
\* allowed after it when the pattern has \s*
NameIs(name, word, blanks) ==
    /\ Len(name) >= Len(word)
    /\ StrLower(SubSeq(name, 1, Len(word))) = StrLower(word)
    /\ \A i \in (Len(word) + 1)..Len(name) : blanks /\ name[i] \in Whitespace

refinery_patterns == << w_Refinery, w_refinery, w_Refine, w_refine >>

RECURSIVE PocMatches(_, _)
PocMatches(cache, content) ==
    IF content = << >> THEN << >>
    ELSE (IF NameIs(Head(content).name, w_PoC_Refine, TRUE) /\ Head(content).body # << >>
          THEN parse_poc_refine_template(cache, Head(content).body) ELSE << >>)
         \o PocMatches(cache, Tail(content))

RECURSIVE PatternMatches(_, _)
PatternMatches(word, content) ==
    IF content = << >> THEN << >>
    ELSE (IF NameIs(Head(content).name, word, FALSE) /\ Head(content).body # << >>
          THEN parse_refinery_template(Head(content).body) ELSE << >>)
         \o PatternMatches(word, Tail(content))

\* parse_refinery_recipes (lines 111-137): the PoC-Refine recipes, then the
\* matches of each of the four patterns, every pattern without case
parse_refinery_recipes(cache, content) ==
    PocMatches(cache, content)
        \o PatternMatches(refinery_patterns[1], content)
        \o PatternMatches(refinery_patterns[2], content)
        \o PatternMatches(refinery_patterns[3], content)
        \o PatternMatches(refinery_patterns[4], content)

HasKeys(d, keys) == \A k \in keys : k \in DOMAIN d

\* format_recipe_for_json (lines 379-406): the formatted recipe, or
\* raised: inp['id'] of a dict without the key is a KeyError
format_recipe_for_json(recipe, recipe_id) ==
    IF \/ \E i \in 1..Len(recipe.inputs) :
              ~ HasKeys(recipe.inputs[i], { "id", "name", "quantity" })
       \/ \E i \in 1..Len(recipe.output) :
              ~ HasKeys(recipe.output[i], { "id", "name", "quantity" })
    THEN [ raised |-> TRUE ]
    ELSE [ raised |-> FALSE,
           id |-> recipe_id,
           inputs |-> [ i \in 1..Len(recipe.inputs) |->
                          [ id |-> recipe.inputs[i].id, name |-> recipe.inputs[i].name,
                            quantity |-> recipe.inputs[i].quantity ] ],
           output |-> [ i \in 1..Len(recipe.output) |->
                          [ id |-> recipe.output[i].id, name |-> recipe.output[i].name,
                            quantity |-> recipe.output[i].quantity ] ],
           time |-> recipe.time, operation |-> recipe.operation ]

\* the recipes of one page appended to all_recipes under the ids ref1,
\* ref2, ... (lines 435-439); acc is [raised, recipes]
RECURSIVE FormatAll(_, _)
FormatAll(acc, page_recipes) ==
    IF acc.raised \/ page_recipes = << >> THEN acc
    ELSE LET f == format_recipe_for_json(Head(page_recipes),
                      w_ref \o NatToStr(Len(acc.recipes) + 1))
         IN IF f.raised THEN [ raised |-> TRUE, recipes |-> acc.recipes ]
            ELSE FormatAll([ raised |-> FALSE, recipes |-> Append(acc.recipes, f) ],
                           Tail(page_recipes))

\* the loops of extract_refinery_recipes over the pages (lines 429-470); a
\* page that could not be fetched has no content
RECURSIVE ExtractPages(_, _, _)
ExtractPages(cache, acc, pages) ==
    IF acc.raised \/ pages = << >> THEN acc
    ELSE IF ~ Head(pages).fetched
         THEN ExtractPages(cache, acc, Tail(pages))
    ELSE ExtractPages(cache,
                      FormatAll(acc, parse_refinery_recipes(cache, Head(pages).content)),
                      Tail(pages))

----------------------------------------------------------------------------
(* RefineryExtractor at work on an items table: load_item_ids, then one    *)
(* call of get_item_id, or main() of the extractor, which                  *)
(* loads the ids, parses and formats the templates of the pages and        *)
(* writes Refinery.json.                                                   *)

MaxRows == 2
MaxPages == 2

\* the rows of the items table, as far as the extractor reads them
RefineryRows ==
    { [ title |-> w_Carbon,     id |-> w_raw \o << "1" >> ],
      [ title |-> w_carbon,     id |-> w_raw \o << "2" >> ],
      [ title |-> w_Carbon_Ore, id |-> w_raw \o << "3" >> ],
      [ title |-> w_Oxygen,     id |-> w_raw \o << "4" >> ] }

\* the tables of at most MaxRows rows of different items, in any rowid order
RefineryTables ==
    UNION { { t \in [ 1..n -> RefineryRows ] :
                \A i, j \in 1..n : i # j => t[i] # t[j] } : n \in 0..MaxRows }

RefineryQueries == { w_Carbon, w_carbon, w_CARBON, w_Carbon_Ore, w_Ore, w_Salt, << >> }

\* the pages: fetched or not, and the templates of the content
RefineryPages ==
    { [ fetched |-> FALSE, content |-> << >> ],
      [ fetched |-> TRUE, content |->
          << Template(w_PoC_Refine, w_Carbon_2_1_0_18_Condense_Carbon) >> ],
      [ fetched |-> TRUE, content |->
          << Template(w_PoC_Refine, w_Salt_1_Carbon_x_1_2_Create_Salt \o << "|", " " >>
                                        \o w_Carbon_1_1_1_Smelt) >> ],
      [ fetched |-> TRUE, content |->
          << Template(w_Refinery, w_input_Carbon_2_output_Oxygen_x3_time_5) >> ],
      [ fetched |-> TRUE, content |->
          << Template(w_refine, w_in1_Salt__in2___2_Carbon__result_Cake_operation_Bake),
             Template(w_PoC_Refine, w_Carbon_2_1_0_18_Condense_Carbon) >> ],
      [ fetched |-> TRUE, content |-> << Template(w_Refine, w_input_Carbon) >> ] }

PageLists == UNION { [ 1..n -> RefineryPages ] : n \in 1..MaxPages }

InitRefinery ==
    /\ items \in RefineryTables
    /\ refinery_recipes = << >> /\ refinery_ingredients = << >>
    /\ cooking_recipes = << >> /\ cooking_ingredients = << >>
    /\ group_counters = InitCounters
    /\ collected_recipes = << >>
    /\ todo = {} /\ recipe_idx = 1 /\ runs = 0
    /\ group_counts = [ g \in TARGET_GROUPS |-> 0 ]
    /\ faults = 0
    /\ recipe_saved = FALSE
    /\ first_id = [ t \in Pages |-> None ]
    /\ run_ids = << >>
    /\ saved = {}
    /\ prev = EmptyDb
    /\ files = NoFiles
    /\ item_id_cache = << >> /\ item_name_to_id = << >> /\ seen_items = {}
    /\ pc = "extractor"
    /\ call = NoCall

RefineryFrame ==
    UNCHANGED << dbVars, group_counters, collected_recipes, todo, recipe_idx,
                 runs, group_counts, faults, recipe_saved, first_id, run_ids,
                 saved, prev, item_name_to_id, seen_items >>

\* load_item_ids (lines 38-67); db_ok = FALSE: the SELECT raises, the
\* error is logged and the cache stays as it was
LoadItemIds(db_ok) ==
    /\ pc = "extractor"
    /\ item_id_cache' = IF db_ok THEN load_item_ids(item_id_cache, items)
                        ELSE item_id_cache
    /\ call' = [ op |-> "load_item_ids", result |-> db_ok ]
    /\ pc' = pc
    /\ UNCHANGED files
    /\ RefineryFrame

\* get_item_id on the cache as it is
GetItemId(item_name) ==
    /\ pc = "extractor"
    /\ call' = [ op |-> "get_item_id", item_name |-> item_name,
                 result |-> get_item_id(item_id_cache, item_name) ]
    /\ pc' = "return"
    /\ UNCHANGED << item_id_cache, files >>
    /\ RefineryFrame

\* main() of the extractor (lines 505-515): extract_refinery_recipes over
\* the pages, then save_refinery_json; an exception out of the extraction
\* ends the program before the file is written
ExtractMain(db_ok, pages) ==
    /\ pc = "extractor"
    /\ item_id_cache' = IF db_ok THEN load_item_ids(item_id_cache, items)
                        ELSE item_id_cache
    /\ call' = [ op |-> "extract_refinery_recipes", pages |-> pages,
                 out |-> ExtractPages(item_id_cache',
                                      [ raised |-> FALSE, recipes |-> << >> ], pages) ]
    /\ files' = IF call'.out.raised THEN files
                ELSE WriteFile(files, "Refinery.json", call'.out.recipes)
    /\ pc' = IF call'.out.raised THEN "raised" ELSE "return"
    /\ RefineryFrame

NextRefinery ==
    \/ \E db_ok \in BOOLEAN : LoadItemIds(db_ok)
    \/ \E item_name \in RefineryQueries : GetItemId(item_name)
    \/ \E db_ok \in BOOLEAN, pages \in PageLists : ExtractMain(db_ok, pages)

SpecRefinery == InitRefinery /\ [][NextRefinery]_vars

----------------------------------------------------------------------------
(* NutrientProcessorExtractor (src/nutrient_processor_extractor.py): the   *)
(* name-to-id mapping of the items table and the parsers of a Cook / Craft *)
(* line.  item_name_to_id is a dict, kept as the sequence of its entries   *)
(* in insertion order.                                                     *)

\* lines 43-47: the four keys of one row
MappingRow(mapping, title, item_id) ==
    DictSet(DictSet(DictSet(DictSet(mapping, title, item_id),
                            StrLower(title), item_id),
                    Replace(title, " ", << >>), item_id),
            Replace(title, "-", << " " >>), item_id)

\* load_item_mappings (lines 36-51) over the rows of SELECT title, id
RECURSIVE load_item_mappings(_, _)
load_item_mappings(mapping, rows) ==
    IF rows = << >> THEN mapping
    ELSE load_item_mappings(MappingRow(mapping, Head(rows).title, Head(rows).id),
                            Tail(rows))

\* lines 63-67: the first entry whose name holds the query or is held by it
PartialMapping(mapping, item_name) ==
    LET item_lower == StrLower(item_name)
        hits == { i \in 1..Len(mapping) :
                    \/ Contains(item_lower, StrLower(mapping[i].key))
                    \/ Contains(StrLower(mapping[i].key), item_lower) }
    IN IF hits = {} THEN None
       ELSE mapping[CHOOSE i \in hits : \A j \in hits : i <= j].value

\* find_item_id (lines 53-70)
find_item_id(mapping, item_name) ==
    IF item_name = << >> THEN None
    ELSE IF DictHas(mapping, item_name) THEN DictValue(mapping, item_name)
    ELSE IF DictHas(mapping, StrLower(item_name))
         THEN DictValue(mapping, StrLower(item_name))
    ELSE IF DictHas(mapping, Strip(item_name)) THEN DictValue(mapping, Strip(item_name))
    ELSE PartialMapping(mapping, item_name)

\* lines 150 and 190: the stripped parts of line.split(';') that are not
\* empty and hold no '='
RECURSIVE StrippedMaterials(_)
StrippedMaterials(parts) ==
    IF parts = << >> THEN << >>
    ELSE (IF Strip(Head(parts)) # << >> /\ ~ Contains(<< "=" >>, Head(parts))
          THEN << Strip(Head(parts)) >> ELSE << >>)
         \o StrippedMaterials(Tail(parts))

Materials(line) == StrippedMaterials(Split(line, ";"))

\* lines 152-164 and 192-204: the inputs of the materials; a material
\* without a comma, with an amount int() rejects, or with a name
\* find_item_id does not know adds nothing
RECURSIVE CookInputs(_, _)
CookInputs(mapping, materials) ==
    IF materials = << >> THEN << >>
    ELSE LET material == Head(materials)
             rest     == CookInputs(mapping, Tail(materials))
         IN IF ~ Contains(<< "," >>, material) THEN rest
            ELSE LET parts     == Split1(material, ",")
                     item_name == Strip(parts[1])
                     item_id   == find_item_id(mapping, item_name)
                 IN IF ~ IsDigit(Strip(parts[2])) THEN rest
                    ELSE IF item_id = None \/ item_id = << >> THEN rest
                    ELSE << [ id |-> item_id, quantity |-> IntOf(Strip(parts[2])) ] >>
                         \o rest

\* determine_cooking_operation (lines 224-246)
determine_cooking_operation(inputs, output_name) ==
    LET output_lower == StrLower(output_name)
    IN IF AnyIn({ w_ferment, w_aged, w_wine, w_alcohol }, output_lower)
       THEN w_Processor_Setting__Fermentation
       ELSE IF AnyIn({ w_extract, w_oil, w_essence }, output_lower)
       THEN w_Processor_Setting__Extract_Nutrients
       ELSE IF AnyIn({ w_yolk, w_egg }, output_lower)
       THEN w_Processor_Setting__Chromatic_Yolk_Formation
       ELSE IF AnyIn({ w_bake, w_cake, w_bread, w_pie }, output_lower)
       THEN w_Processor_Setting__Baking
       ELSE IF AnyIn({ w_grill, w_meat, w_steak }, output_lower)
       THEN w_Processor_Setting__Grilling
       ELSE IF AnyIn({ w_blend, w_mix, w_combine }, output_lower)
       THEN w_Processor_Setting__Blending
       ELSE IF AnyIn({ w_soup, w_stew, w_broth }, output_lower)
       THEN w_Processor_Setting__Cooking
       ELSE IF Len(inputs) = 1 THEN w_Processor_Setting__Processing
       ELSE w_Processor_Setting__Combining

\* parse_cook_line (lines 147-182): no recipe, or the one recipe
parse_cook_line(mapping, line, source_page) ==
    LET inputs    == CookInputs(mapping, Materials(line))
        output_id == find_item_id(mapping, source_page)
    IN IF inputs = << >> THEN << >>
       ELSE IF output_id = None \/ output_id = << >> THEN << >>
       ELSE << [ inputs      |-> inputs,
                 output      |-> [ id |-> output_id, quantity |-> 1 ],
                 operation   |-> determine_cooking_operation(inputs, source_page),
                 source_page |-> source_page ] >>

\* parse_craft_line (lines 184-222): a blueprint line gives no recipe, any
\* other line is parsed as a Cook line is
parse_craft_line(mapping, line, source_page) ==
    IF Contains(w_blueprint_yes, line) THEN << >>
    ELSE parse_cook_line(mapping, line, source_page)

----------------------------------------------------------------------------
(* The extractor constructed on an items table, and calls of its parsers   *)

\* the rows of the items table, as far as the extractor reads them
NutrientRows ==
    { [ title |-> w_Salt,        id |-> w_raw \o << "1" >> ],
      [ title |-> w_Carbon,      id |-> w_raw \o << "2" >> ],
      [ title |-> w_Carbon_Ore,  id |-> w_raw \o << "3" >> ],
      [ title |-> w_Carbon_Cake, id |-> w_cook \o << "1" >> ] }

NutrientTables ==
    UNION { { t \in [ 1..n -> NutrientRows ] :
                \A i, j \in 1..n : i # j => t[i] # t[j] } : n \in 0..MaxRows }

CookLines ==
    { w_Salt_2_Carbon_1, w_Salt_2_Unobtainium_1, w_Unobtainium_3,
      w_Salt_x__carbon_ore___2_note_a, w_Salt_1_blueprint_yes, << >> }

SourcePages == { w_Carbon_Cake, w_Mystery_Stew, w_Salt }

NutrientNames == { w_Salt, w_carbon, w_Unobtainium, w_Ore, << >> }

\* __init__ (lines 23-34): the mapping is loaded at construction
InitNutrient ==
    /\ items \in NutrientTables
    /\ refinery_recipes = << >> /\ refinery_ingredients = << >>
    /\ cooking_recipes = << >> /\ cooking_ingredients = << >>
    /\ group_counters = InitCounters
    /\ collected_recipes = << >>
    /\ todo = {} /\ recipe_idx = 1 /\ runs = 0
    /\ group_counts = [ g \in TARGET_GROUPS |-> 0 ]
    /\ faults = 0
    /\ recipe_saved = FALSE
    /\ first_id = [ t \in Pages |-> None ]
    /\ run_ids = << >>
    /\ saved = {}
    /\ prev = EmptyDb
    /\ files = NoFiles
    /\ item_id_cache = << >> /\ seen_items = {}
    /\ item_name_to_id = load_item_mappings(<< >>, items)
    /\ pc = "nutrient"
    /\ call = NoCall

NutrientFrame ==
    /\ pc' = pc
    /\ UNCHANGED << dbVars, group_counters, collected_recipes, todo, recipe_idx,
                    runs, group_counts, faults, recipe_saved, first_id, run_ids,
                    saved, prev, files, item_id_cache, item_name_to_id, seen_items >>

FindItemId(item_name) ==
    /\ pc = "nutrient"
    /\ call' = [ op |-> "find_item_id", item_name |-> item_name,
                 result |-> find_item_id(item_name_to_id, item_name) ]
    /\ NutrientFrame

ParseCookLine(line, source_page) ==
    /\ pc = "nutrient"
    /\ call' = [ op |-> "parse_cook_line", line |-> line, source_page |-> source_page,
                 result |-> parse_cook_line(item_name_to_id, line, source_page) ]
    /\ NutrientFrame

ParseCraftLine(line, source_page) ==
    /\ pc = "nutrient"
    /\ call' = [ op |-> "parse_craft_line", line |-> line, source_page |-> source_page,
                 result |-> parse_craft_line(item_name_to_id, line, source_page) ]
    /\ NutrientFrame

NextNutrient ==
    \/ \E item_name \in NutrientNames : FindItemId(item_name)
    \/ \E line \in CookLines, source_page \in SourcePages : ParseCookLine(line, source_page)
    \/ \E line \in CookLines, source_page \in SourcePages : ParseCraftLine(line, source_page)

SpecNutrient == InitNutrient /\ [][NextNutrient]_vars

----------------------------------------------------------------------------
(* IntelligentNMSScraper (src/intelligent_scraper.py): the content-based   *)
(* classifier, the id generator, save_item_to_db and the page loop of      *)
(* main().                                                                 *)

\* the local variables of classify_item_intelligently (lines 60-68); the
\* default of .get stands for a missing key only, and .lower() of None
\* raises AttributeError
IntelligentFields(item_data) ==
    LET infobox == DictGet(item_data, "infobox", << >>) IN
    [ description |-> StrLower(DictGet(item_data, "description", << >>)),
      title       |-> StrLower(DictGet(item_data, "title", << >>)),
      categories  |-> LET cats == DictGet(item_data, "categories", << >>)
                      IN [ i \in 1..Len(cats) |-> StrLower(cats[i]) ],
      item_type   |-> StrLower(DictGet(infobox, "type", << >>)),
      category    |-> StrLower(DictGet(infobox, "category", << >>)),
      used_for    |-> StrLower(DictGet(infobox, "used", << >>)) ]

\* any(keyword in categories for keyword in kws), categories a list
AnyInList(kws, lst) == \E k \in kws : InList(k, lst)

\* the cascade of lines 70-166
IntelligentCascade(f) ==
    IF \/ AnyIn({ w_element, w_mineral, w_substance, w_fuel, w_catalyst, w_gas },
                f.item_type)
       \/ AnyInList({ w_raw_materials, w_fuel_elements, w_special_elements,
                      w_earth_elements }, f.categories)
       \/ AnyIn({ w_carbon, w_ferrite, w_sodium, w_oxygen, w_cobalt, w_cadmium,
                  w_emeril, w_indium }, f.title)
    THEN "rawMaterials"
    ELSE IF \/ Contains(w_fish, f.item_type) \/ Contains(w_fish, f.category)
            \/ \E i \in 1..Len(f.categories) : Contains(w_fish, f.categories[i])
            \/ Contains(w_fish, f.title)
    THEN "fish"
    ELSE IF \/ AnyIn({ w_edible, w_food, w_ingredient, w_nutrient, w_meal, w_drink,
                       w_bait }, f.item_type)
            \/ Contains(w_cooking, f.used_for)
            \/ Contains(w_edible, f.category)
            \/ /\ AnyIn({ w_edible, w_food, w_meal, w_cooking, w_nutrient_processor,
                          w_eat, w_consume }, f.description)
               /\ ~ AnyIn({ w_technology, w_platform, w_component, w_module },
                          f.item_type)
    THEN "cooking"
    ELSE IF \/ AnyIn({ w_nutrient_processor, w_cooking_station, w_food_processor },
                     f.description)
            \/ Contains(w_nutrient_processor, f.title)
    THEN "nutrientProcessor"
    ELSE IF \/ AnyIn({ w_technology, w_platform, w_component, w_module, w_upgrade,
                       w_blueprint }, f.item_type)
            \/ AnyIn({ w_technology, w_blueprint }, f.category)
            \/ AnyIn({ w_upgrading, w_technology }, f.used_for)
            \/ AnyInList({ w_technology, w_blueprints, w_constructed_technology },
                         f.categories)
            \/ AnyIn({ w_module, w_upgrade, w_blueprint, w_scanner, w_drive, w_engine },
                     f.title)
    THEN "technology"
    ELSE IF \/ AnyIn({ w_construction, w_building, w_base, w_structure, w_decoration,
                       w_module, w_interior }, f.item_type)
            \/ AnyIn({ w_base_building, w_construction, w_building }, f.category)
            \/ AnyIn({ w_building, w_construction }, f.used_for)
            \/ AnyIn({ w_base_building, w_construction, w_structure, w_build,
                       w_fabricated, w_habitable }, f.description)
            \/ AnyIn({ w_corridor, w_room, w_door, w_wall, w_floor, w_roof, w_window },
                     f.title)
    THEN "buildings"
    ELSE IF \/ AnyIn({ w_trade, w_commodity, w_valuable, w_tradeable }, f.item_type)
            \/ AnyIn({ w_trade, w_tradeable, w_commodity }, f.category)
            \/ AnyInList({ w_trade_commodity, w_tradeable }, f.categories)
            \/ Contains(w_trade, f.description)
    THEN "trade"
    ELSE IF \/ AnyIn({ w_artifact, w_curiosity, w_relic, w_treasure, w_sample },
                     f.item_type)
            \/ AnyIn({ w_curiosity, w_artifact }, f.category)
            \/ AnyInList({ w_curiosity, w_artifact }, f.categories)
            \/ AnyIn({ w_artifact, w_relic, w_treasure, w_sample, w_fossil }, f.title)
    THEN "curiosities"
    ELSE IF \/ AnyIn({ w_product, w_consumable, w_container }, f.category)
            \/ AnyIn({ w_product, w_manufactured, w_crafted }, f.item_type)
            \/ Contains(w_crafting, f.used_for)
    THEN "products"
    ELSE "others"

\* classify_item_intelligently (lines 50-166): the label, or "raise" when
\* a field read at lines 61-68 is None
classify_item_intelligently(item_data) ==
    LET f == IntelligentFields(item_data)
    IN IF \/ f.description = Raised \/ f.title = Raised \/ f.item_type = Raised
          \/ f.category = Raised \/ f.used_for = Raised
       THEN "raise"
       ELSE IntelligentCascade(f)

\* the label as text
GroupText ==
    [ buildings |-> w_buildings, cooking |-> w_cooking, curiosities |-> w_curiosities,
      fish |-> w_fish, nutrientProcessor |-> w_nutrientProcessor,
      others |-> w_others, products |-> w_products, rawMaterials |-> w_rawMaterials,
      refinery |-> w_refinery, technology |-> w_technology, trade |-> w_trade ]

\* ''.join(word.capitalize() for word in re.findall(r'[a-zA-Z0-9]+', title))
CamelCase(title) ==
    AlnumOnly([ i \in 1..Len(title) |->
                  IF i = 1 \/ ~ IsAlnumChar(title[i - 1]) THEN UpperChar(title[i])
                  ELSE LowerChar(title[i]) ])

\* IntelligentNMSScraper.generate_item_id (lines 323-327)
intelligent_item_id(title, group) == GroupText[group] \o CamelCase(title)

\* IntelligentNMSScraper.save_item_to_db (lines 358-390): the table after
\* the call; db_ok = FALSE is sqlite3.Error, the call returns False
intelligent_save_item(table, item_data, group, db_ok) ==
    IF ~ db_ok THEN table
    ELSE ReplaceInto(table,
                     [ id |-> item_data.id, title |-> item_data.title,
                       description |-> item_data.description,
                       type |-> DictGet(item_data.infobox, "type", << >>),
                       group_name |-> group,
                       infobox |-> JsonDumps(item_data.infobox),
                       categories |-> JsonDumps(item_data.categories) ],
                     "id")

----------------------------------------------------------------------------
(* main() of intelligent_scraper.py over the pages of the categories       *)

IntelligentPages == { w_Carbon, w_Carbon_Ore, w_Cake, w_Salt, w_Oxygen }

\* what parse_infobox, parse_description and parse_categories give for the
\* content of a page (lines 497-507); a page without a Game description
\* and a Summary section has the description None
IntelligentParsed(page_title) ==
    CASE page_title = w_Carbon ->
           [ title |-> page_title, description |-> w_A_fuel,
             infobox |-> [ type |-> w_Raw_Material ],
             categories |-> << w_Raw_Materials >> ]
      [] page_title = w_Carbon_Ore ->
           [ title |-> page_title, description |-> None,
             infobox |-> [ type |-> w_Mineral ], categories |-> << >> ]
      [] page_title = w_Cake ->
           [ title |-> page_title, description |-> w_Eat,
             infobox |-> [ type |-> w_Edible_Product ],
             categories |-> << w_Products >> ]
      [] page_title = w_Salt ->
           [ title |-> page_title, description |-> None,
             infobox |-> << >>, categories |-> << >> ]
      [] page_title = w_Oxygen ->
           [ title |-> page_title, description |-> w_Ore,
             infobox |-> << >>, categories |-> << w_Products >> ]

InitIntelligent ==
    /\ items = << >>
    /\ refinery_recipes = << >> /\ refinery_ingredients = << >>
    /\ cooking_recipes = << >> /\ cooking_ingredients = << >>
    /\ group_counters = InitCounters
    /\ collected_recipes = << >>
    /\ todo = IntelligentPages /\ recipe_idx = 1 /\ runs = 0
    /\ group_counts = [ g \in TARGET_GROUPS |-> 0 ]
    /\ faults = 0
    /\ recipe_saved = FALSE
    /\ first_id = [ t \in Pages |-> None ]
    /\ run_ids = << >>
    /\ saved = {}
    /\ prev = EmptyDb
    /\ files = NoFiles
    /\ item_id_cache = << >> /\ item_name_to_id = << >> /\ seen_items = {}
    /\ pc = "pages"
    /\ call = NoCall

IntelligentFrame ==
    UNCHANGED << refinery_recipes, refinery_ingredients, cooking_recipes,
                 cooking_ingredients, group_counters, collected_recipes, recipe_idx,
                 runs, faults, recipe_saved, first_id, run_ids, saved, prev, files,
                 toolVars >>

\* one pass of the loop of main() (lines 489-520): the page is fetched,
\* parsed, classified, given its id and saved.  An exception out of
\* classify_item_intelligently is caught nowhere: the program ends.
IntelligentPage(page_title, fetched, db_ok) ==
    /\ pc = "pages"
    /\ page_title \in todo
    /\ LET item_data == IntelligentParsed(page_title)
           group     == classify_item_intelligently(item_data)
       IN IF ~ fetched
          THEN /\ todo' = todo \ { page_title }
               /\ call' = [ op |-> "page", page_title |-> page_title,
                            fetched |-> FALSE, db_ok |-> db_ok, group |-> "none" ]
               /\ UNCHANGED << items, group_counts, pc >>
          ELSE IF group = "raise"
          THEN /\ pc' = "raised"
               /\ call' = [ op |-> "page", page_title |-> page_title,
                            fetched |-> TRUE, db_ok |-> db_ok, group |-> "raise" ]
               /\ UNCHANGED << items, group_counts, todo >>
          ELSE /\ items' = intelligent_save_item(items,
                               [ id |-> intelligent_item_id(page_title, group) ]
                                   @@ item_data,
                               group, db_ok)
               /\ group_counts' = IF db_ok
                                  THEN [ group_counts EXCEPT ![group] = @ + 1 ]
                                  ELSE group_counts
               /\ todo' = todo \ { page_title }
               /\ call' = [ op |-> "page", page_title |-> page_title,
                            fetched |-> TRUE, db_ok |-> db_ok, group |-> group ]
               /\ pc' = pc
    /\ IntelligentFrame

NextIntelligent ==
    \E page_title \in IntelligentPages, fetched, db_ok \in BOOLEAN :
        IntelligentPage(page_title, fetched, db_ok)

SpecIntelligent == InitIntelligent /\ [][NextIntelligent]_vars

----------------------------------------------------------------------------
(* NMSWikiScraper (src/nms_wiki_scraper.py): save_item_to_db and the set   *)
(* seen_items of the scraper instance.                                     *)

\* NMSWikiScraper.generate_item_id (lines 469-488): the type, then the
\* words of the title, capitalized
wiki_item_id(title, item_type) == item_type \o CamelCase(title)

\* the row save_item_to_db writes (lines 746-767)
WikiRow(item_data, source_category, group_name) ==
    [ id |-> item_data.id, title |-> item_data.title,
      description |-> DictGet(item_data, "description", None),
      type |-> item_data.type,
      infobox |-> JsonDumps(DictGet(item_data, "infobox", << >>)),
      crafting |-> JsonDumps(DictGet(item_data, "crafting", << >>)),
      categories |-> JsonDumps(DictGet(item_data, "categories", << >>)),
      source_category |-> source_category, group_name |-> group_name ]

\* the id joins seen_items only when the write succeeded
wiki_save_item_seen_on_success(table, seen, item_data, source_category, group_name, db_ok) ==
    LET item_id == item_data.id
        row     == WikiRow(item_data, source_category, group_name)
    IN IF item_id \in seen
       THEN [ items |-> table, seen_items |-> seen, returned |-> FALSE ]
       ELSE IF ~ db_ok
       THEN [ items |-> table, seen_items |-> seen, returned |-> FALSE ]
       ELSE [ items |-> IF \E k \in 1..Len(table) : table[k].id = item_id
                        THEN [ k \in 1..Len(table) |->
                                 IF table[k].id = item_id THEN row ELSE table[k] ]
                        ELSE Append(table, row),
              seen_items |-> seen \cup { item_id },
              returned |-> TRUE ]

\* NMSWikiScraper.save_item_to_db (lines 712-781): the items table and
\* seen_items after the call, and the value returned.  An id of seen_items
\* is skipped; a new id joins seen_items before the database is opened;
\* the row of an id the table holds is updated in place, any other row is
\* inserted; db_ok = FALSE is sqlite3.Error: nothing is committed
wiki_save_item(table, seen, item_data, source_category, group_name, db_ok) ==
    LET item_id == item_data.id
        row     == WikiRow(item_data, source_category, group_name)
    IN IF item_id \in seen
       THEN [ items |-> table, seen_items |-> seen, returned |-> FALSE ]
       ELSE IF ~ db_ok
       THEN [ items |-> table, seen_items |-> seen \cup { item_id },
              returned |-> FALSE ]
       ELSE [ items |-> IF \E k \in 1..Len(table) : table[k].id = item_id
                        THEN [ k \in 1..Len(table) |->
                                 IF table[k].id = item_id THEN row ELSE table[k] ]
                        ELSE Append(table, row),
              seen_items |-> seen \cup { item_id },
              returned |-> TRUE ]

\* the records parse_blueprint_page hands to save_item_to_db: two titles
\* with the same id and one with another
WikiTitles == { w_Carbon_Ore, w_carbon \o << " " >> \o w_ore, w_Salt }

WikiItem(title) ==
    [ id |-> wiki_item_id(title, w_trade), title |-> title, type |-> w_trade,
      description |-> None, infobox |-> << >>, crafting |-> << >>,
      categories |-> << >> ]

WikiCategories == { w_Products, w_Raw_Materials }

\* a new scraper instance (line 101) on a database that is empty or holds
\* a row of an earlier run
InitWiki ==
    /\ items \in { << >>, << WikiRow(WikiItem(w_Carbon_Ore), w_Products, "products") >> }
    /\ refinery_recipes = << >> /\ refinery_ingredients = << >>
    /\ cooking_recipes = << >> /\ cooking_ingredients = << >>
    /\ group_counters = InitCounters
    /\ collected_recipes = << >>
    /\ todo = {} /\ recipe_idx = 1 /\ runs = 0
    /\ group_counts = [ g \in TARGET_GROUPS |-> 0 ]
    /\ faults = 0
    /\ recipe_saved = FALSE
    /\ first_id = [ t \in Pages |-> None ]
    /\ run_ids = << >>
    /\ saved = {}
    /\ prev = EmptyDb
    /\ files = NoFiles
    /\ item_id_cache = << >> /\ item_name_to_id = << >>
    /\ seen_items = {}
    /\ pc = "wiki"
    /\ call = NoCall

\* scraper.save_item_to_db(parsed_data, category, group_name) (line 965)
WikiSave(title, source_category, group_name, db_ok) ==
    /\ pc = "wiki"
    /\ LET r == wiki_save_item(items, seen_items, WikiItem(title), source_category,
                               group_name, db_ok)
       IN /\ items' = r.items
          /\ seen_items' = r.seen_items
          /\ call' = [ op |-> "wiki_save", item_id |-> WikiItem(title).id,
                       title |-> title, db_ok |-> db_ok, returned |-> r.returned ]
    /\ pc' = pc
    /\ UNCHANGED << refinery_recipes, refinery_ingredients, cooking_recipes,
                    cooking_ingredients, group_counters, collected_recipes, todo,
                    recipe_idx, runs, group_counts, faults, recipe_saved, first_id,
                    run_ids, saved, prev, files, item_id_cache, item_name_to_id >>

NextWiki ==
    \E title \in WikiTitles, source_category \in WikiCategories,
       group_name \in { "products", "rawMaterials" }, db_ok \in BOOLEAN :
        WikiSave(title, source_category, group_name, db_ok)

SpecWiki == InitWiki /\ [][NextWiki]_vars

----------------------------------------------------------------------------
(* Properties                                                              *)

Returned(op) == pc = "return" /\ call.op = op

GroupOrder == << "rawMaterials", "fish", "cooking", "nutrientProcessor", "products",
                 "trade", "buildings", "technology", "curiosities" >>

GroupHolds(g, f) ==
    CASE g = "rawMaterials"      -> IsRawMaterials(f)
      [] g = "fish"              -> IsFish(f)
      [] g = "cooking"           -> IsCooking(f)
      [] g = "nutrientProcessor" -> IsNutrientProcessor(f)
      [] g = "products"          -> IsProducts(f)
      [] g = "trade"             -> IsTrade(f)
      [] g = "buildings"         -> IsBuildings(f)
      [] g = "technology"        -> IsTechnology(f)
      [] g = "curiosities"       -> IsCuriosities(f)

Hits(item_data) ==
    { i \in 1..Len(GroupOrder) : GroupHolds(GroupOrder[i], ClassifyFields(item_data)) }

\* C2: classify_item returns the label of the first group, in the order
\* rawMaterials, fish, cooking, nutrientProcessor, products, trade,
\* buildings, technology, curiosities, whose predicate holds, and others
\* only when none holds; title Carbon with type element is rawMaterials
\* whatever the other fields are.
C2_FirstGroupWins ==
    Returned("classify_item") =>
        LET hits == Hits(call.item_data) IN
        /\ hits = {} => call.result = "others"
        /\ hits # {} =>
             call.result = GroupOrder[CHOOSE i \in hits : \A j \in hits : i <= j]
        /\ ( /\ call.item_data.title = w_Carbon
             /\ DictGet(call.item_data.infobox, "type", None) = w_Element )
           => call.result = "rawMaterials"

\* an item that a later group (buildings) and a still later one (technology)
\* both match, and one that matches rawMaterials and later groups
C2_Witness ==
    /\ Returned("classify_item")
    /\ LET f == ClassifyFields(call.item_data) IN
       /\ IsBuildings(f) /\ IsTechnology(f) /\ call.result = "buildings"
       /\ call.item_data.title = w_Scanner_Room

TenLabels == { "rawMaterials", "fish", "cooking", "nutrientProcessor", "technology",
               "buildings", "trade", "curiosities", "products", "others" }

\* C3: for every item the parsers can produce, classify_item returns one of
\* the ten labels; it never returns refinery and never raises.
C3_LabelInClosedSet ==
    Returned("classify_item") =>
        /\ call.result \in TenLabels
        /\ call.result # "refinery" /\ call.result # "raise"

\* an infobox without type, category and used, a description that is None
C3_Witness ==
    /\ Returned("classify_item")
    /\ call.item_data.infobox = << >>
    /\ call.item_data.description = None
    /\ call.item_data.categories = << >>
    /\ call.result = "others"

\* C1: in a run of main(), no recipe is saved before the page loop has
\* finished, and no item is saved once a recipe save has been called.
C1_ItemsBeforeRecipes ==
    /\ recipe_saved => (todo = {} /\ pc # "pages")
    /\ pc = "pages" => ~ recipe_saved
    /\ (call.op \in { "save_item_to_db", "get_page_raw_content", "skip" })
          => ~ recipe_saved

C1_Witness ==
    /\ recipe_saved /\ pc = "recipes"
    /\ Len(items) = Cardinality(Pages)
    /\ refinery_recipes # << >> /\ cooking_recipes # << >>

RowsWithId(table, id) == SelectSeq(table, LAMBDA r : r.id = id)

\* C4: after save_item_to_db has written a record whose id had a row, the
\* table holds exactly one row with the id, and every stored field of it is
\* that of the new record.
C4_ReplaceWholeRow ==
    (call.op = "save_item_to_db" /\ call.result /\ call.old # << >>) =>
        LET d    == call.item_data
            rows == RowsWithId(items, d.id)
        IN /\ Len(rows) = 1
           /\ rows[1].title = d.title
           /\ \A k \in SectionKeys : rows[1][k] = d[k]
           /\ rows[1].type = DictGet(d.infobox, "type", << >>)
           /\ rows[1].group_name = call.group
           /\ rows[1].value = extract_value_from_infobox(d.infobox)
           /\ JsonLoads(rows[1].infobox) = d.infobox
           /\ JsonLoads(rows[1].categories) = d.categories

\* the row that was replaced belonged to another title
C4_Witness ==
    /\ call.op = "save_item_to_db" /\ call.result /\ call.old # << >>
    /\ call.old[1].title # call.item_data.title
    /\ call.old[1].summary # call.item_data.summary

RecipeIds(prefix, item_id, lines) ==
    { prefix \o item_id \o << "_" >> \o NatToStr(i) : i \in 1..Len(lines) }

RowsOfRecipes(table, ids) == SelectSeq(table, LAMBDA r : r.recipe_id \in ids)

\* C5: a second save_refinery_recipes (save_cooking_recipes) call with the
\* same item id and the same lines leaves the recipe and its ingredient rows
\* as they were after the first call.
C5_RecipeUpsertIdempotent ==
    (call.op = "save_recipes" /\ call.fault = {}) =>
        /\ (call.ref_again /\ call.ref_ok) =>
             LET ids == RecipeIds(w_ref_, call.item_id, call.refinery) IN
             /\ RowsOfRecipes(refinery_recipes, ids)
                    = RowsOfRecipes(prev.refinery_recipes, ids)
             /\ RowsOfRecipes(refinery_ingredients, ids)
                    = RowsOfRecipes(prev.refinery_ingredients, ids)
        /\ (call.cook_again /\ call.cook_ok) =>
             LET ids == RecipeIds(w_cook_, call.item_id, call.cooking) IN
             /\ RowsOfRecipes(cooking_recipes, ids)
                    = RowsOfRecipes(prev.cooking_recipes, ids)
             /\ RowsOfRecipes(cooking_ingredients, ids)
                    = RowsOfRecipes(prev.cooking_ingredients, ids)

RowsWithTitle(table, title) == SelectSeq(table, LAMBDA r : r.title = title)

\* C6: after any number of runs without a hard reset (and without a fault),
\* the items table holds one row per scraped title, under the id the title
\* was first given.
C6_OneRowPerTitleUnderFirstId ==
    (pc = "idle" /\ faults = 0) =>
        \A t \in Pages :
            first_id[t] # None =>
                LET rows == RowsWithTitle(items, t) IN
                Len(rows) = 1 /\ rows[1].id = first_id[t]

\* ids of different groups differ, whatever the counters (one per page at most)
IdsOfGroupsDiffer ==
    \A g1, g2 \in TARGET_GROUPS : \A n, m \in 1..Cardinality(Pages) :
        (g1 # g2) =>
            ItemIdOf([ InitCounters EXCEPT ![g1] = n ], g1)
                # ItemIdOf([ InitCounters EXCEPT ![g2] = m ], g2)

\* C7: within one run every page gets an id no other page of the run gets,
\* whatever the groups are, and the row a page has written is still there.
C7_UniqueIdsInRun ==
    /\ \A i, j \in 1..Len(run_ids) : i # j => run_ids[i].id # run_ids[j].id
    /\ \A i \in 1..Len(run_ids) :
           run_ids[i].saved =>
               \E k \in 1..Len(items) : /\ items[k].id = run_ids[i].id
                                        /\ items[k].title = run_ids[i].title
    /\ IdsOfGroupsDiffer

\* two pages of one group and a page of another, all stored in one run
C7_Witness ==
    /\ Len(run_ids) = 3
    /\ \A i \in 1..3 : run_ids[i].saved
    /\ \E i, j \in 1..3 : i # j /\ SubSeq(run_ids[i].id, 1, 3) = w_raw
                                /\ SubSeq(run_ids[j].id, 1, 3) = w_raw
    /\ \E i \in 1..3 : run_ids[i].id = w_cook \o << "1" >>

\* a name as line 878 normalises it: lower case, blank and hyphen to "_"
Normalized(name) ==
    [ i \in 1..Len(name) |->
        IF name[i] \in { " ", "-" } THEN "_" ELSE LowerChar(name[i]) ]

PlaceholderOf(name) ==
    IF name = << >> THEN w_missing_unknown ELSE w_missing_ \o Normalized(name)

\* the title contains the name, letters without case, "_" in the name
\* standing for any one character
Covers(name, title) ==
    \E k \in 0..(Len(title) - Len(name)) :
        \A j \in 1..Len(name) :
            name[j] = "_" \/ LowerChar(name[j]) = LowerChar(title[k + j])

CoveringRows(name) == { i \in 1..Len(items) : Covers(name, items[i].title) }

IdsOfRows(rows) == { items[i].id : i \in rows }

IsId(id) == id # None /\ id # Raised /\ id # << >>

\* C8: _resolve_item_name_to_id returns, for every name and whichever of its
\* queries fail, a non-empty id and raises nothing: the id of a stored row
\* or missing_<normalized name> (missing_unknown for the empty name), and
\* the placeholder when no stored title matches; save_refinery_recipes
\* stores the recipe and the ingredient row that carries the id.
C8_ResolveAlwaysGivesId ==
    /\ call.op = "_resolve_item_name_to_id" =>
         /\ IsId(call.result)
         /\ call.result \in IdsOfRows(1..Len(items)) \cup { PlaceholderOf(call.name) }
         /\ CoveringRows(call.name) = {} => call.result = PlaceholderOf(call.name)
    /\ call.op = "save_refinery_recipes" =>
         /\ Len(refinery_recipes) = 1 /\ Len(refinery_ingredients) = 1
         /\ refinery_ingredients[1].recipe_id = refinery_recipes[1].recipe_id
         /\ LET id == refinery_ingredients[1].ingredient_item_id IN
            /\ IsId(id)
            /\ id \in IdsOfRows(1..Len(items)) \cup { PlaceholderOf(call.name) }
            /\ CoveringRows(call.name) = {} => id = PlaceholderOf(call.name)

\* a line whose ingredient matches no stored title, saved while every query
\* of the resolver fails: the row is stored with the placeholder
C8_Witness ==
    /\ call.op = "save_refinery_recipes"
    /\ call.name = w_Carbon_Ore_Dust /\ call.fault # {}
    /\ items # << >>
    /\ Len(refinery_ingredients) = 1
    /\ refinery_ingredients[1].ingredient_item_id = w_missing_carbon_ore_dust
    /\ \A i \in 1..Len(items) : items[i].id # w_missing_carbon_ore_dust

NoWildcard(name) == \A i \in 1..Len(name) : name[i] \notin { "%", "_" }

ContainsNoCase(sub, s) == Contains(StrLower(sub), StrLower(s))

\* the call the substring stage decides: queries succeed, the name is not
\* empty, no title equals it with or without case
SubstringStage ==
    /\ call.op = "_resolve_item_name_to_id"
    /\ call.fault = {} /\ call.name # << >>
    /\ \A i \in 1..Len(items) : StrLower(items[i].title) # StrLower(call.name)

\* C9: without an exact and a case-insensitive match, the resolver returns
\* the id of a stored row whose title contains the name (letters without
\* case, "_" in the name matching any one character, no "%" in the name),
\* and the missing_ placeholder when no title contains the name, also when
\* a stored title is contained in the name.
C9_TitleContainsName ==
    (SubstringStage /\ \A i \in 1..Len(call.name) : call.name[i] # "%") =>
        LET rows == CoveringRows(call.name) IN
        /\ rows # {} => call.result \in IdsOfRows(rows)
        /\ rows = {} => call.result = PlaceholderOf(call.name)
        /\ NoWildcard(call.name) =>
             rows = { i \in 1..Len(items) : ContainsNoCase(call.name, items[i].title) }

\* the name Carbon Ore-Dust while the title Carbon Ore is stored
C9_Witness ==
    /\ SubstringStage
    /\ call.name = w_Carbon_Ore_Dust
    /\ \E i \in 1..Len(items) : items[i].title = w_Carbon_Ore
    /\ call.result = w_missing_carbon_ore_dust

\* C9 as stated: a title that contains the name or is contained in it gives
\* its id, the placeholder only when no title is related in either
\* direction.
C9_EitherDirection ==
    (SubstringStage /\ NoWildcard(call.name)) =>
        LET related == { i \in 1..Len(items) :
                            \/ ContainsNoCase(call.name, items[i].title)
                            \/ ContainsNoCase(items[i].title, call.name) }
        IN /\ related # {} => call.result \in IdsOfRows(related)
           /\ related = {} => call.result = PlaceholderOf(call.name)

ValidRecipes ==
    { [ ings |-> << [ name |-> w_Salt, qty |-> 2 ],
                    [ name |-> w_carbon \o << " " >> \o w_ore, qty |-> 3 ] >>,
        out |-> 2, time |-> w_1_5, seconds |-> w_1_5,
        text |-> w_Smelt, operation |-> w_Smelt ],
      [ ings |-> << [ name |-> w_Carbon, qty |-> 50 ] >>,
        out |-> 1, time |-> w_300, seconds |-> w_300_0,
        text |-> w_Condense, operation |-> w_Condense ],
      [ ings |-> << [ name |-> w_Carbon, qty |-> 1 ], [ name |-> w_Salt, qty |-> 2 ],
                    [ name |-> w_Carbon_Ore, qty |-> 3 ] >>,
        out |-> 1, time |-> w_2_5, seconds |-> w_2_5,
        text |-> << " " >> \o w_Smelt, operation |-> w_Smelt ] }

RECURSIVE IngredientsText(_)
IngredientsText(ings) ==
    IF ings = << >> THEN << >>
    ELSE Head(ings).name \o << "," >> \o NatToStr(Head(ings).qty) \o << ";" >>
         \o IngredientsText(Tail(ings))

LineText(v) ==
    IngredientsText(v.ings) \o NatToStr(v.out) \o << ";" >> \o v.time
        \o << "%" >> \o v.text

SavedLines(kind) == call.op = "save_lines" /\ call.kind = kind /\ call.err = 0

RecipeIdOf(prefix, item_id, i) == prefix \o item_id \o << "_" >> \o NatToStr(i)

\* the rows a call has added to an ingredient table
Added(before, after) == SubSeq(after, Len(before) + 1, Len(after))

\* C11: for a line of n components Name,Quantity, an output quantity and
\* Time%Operation, save_refinery_recipes stores one recipe row with the
\* duration Time and the operation after "%", and adds exactly the n rows
\* (resolved name, quantity) in the order of the line.
C11_LineGivesRecipe ==
    SavedLines("refinery") =>
        \A i \in 1..Len(call.lines) : \A v \in ValidRecipes :
            call.lines[i] = LineText(v) =>
                LET id   == RecipeIdOf(w_ref_, call.item_id, i)
                    recs == SelectSeq(refinery_recipes, LAMBDA r : r.recipe_id = id)
                    rows == SelectSeq(Added(prev.refinery_ingredients,
                                            refinery_ingredients),
                                      LAMBDA r : r.recipe_id = id)
                IN /\ Len(recs) = 1
                   /\ recs[1].time_seconds = v.seconds
                   /\ recs[1].operation = v.operation
                   /\ Len(rows) = Len(v.ings)
                   /\ \A j \in 1..Len(rows) :
                        /\ rows[j].ingredient_item_id =
                               resolve_item_name_to_id(items, v.ings[j].name, {})
                        /\ rows[j].quantity = v.ings[j].qty

\* the lines of two and of three components in one call, both stored, the
\* names resolved to a stored id and to a placeholder
C11_Witness ==
    /\ SavedLines("refinery")
    /\ call.lines = << l_smelt, l_bad, l_three >>
    /\ \E v \in ValidRecipes : LineText(v) = l_smelt
    /\ \E v \in ValidRecipes : LineText(v) = l_three
    /\ Len(items) = 2 /\ prev.refinery_ingredients = << >>
    /\ Len(refinery_ingredients) = 5
    /\ refinery_ingredients[2].ingredient_item_id = w_raw \o << "2" >>
    /\ refinery_ingredients[2].quantity = 3
    /\ Len(refinery_recipes) = 2
    /\ refinery_recipes[1].time_seconds = w_1_5
    /\ refinery_recipes[1].operation = w_Smelt

Semicolons(line) == Cardinality({ k \in 1..Len(line) : line[k] = ";" })

KindPrefix(kind) == IF kind = "refinery" THEN w_ref_ ELSE w_cook_

RecipesOf(db, kind) ==
    IF kind = "refinery" THEN db.refinery_recipes ELSE db.cooking_recipes

IngredientsOf(db, kind) ==
    IF kind = "refinery" THEN db.refinery_ingredients ELSE db.cooking_ingredients

\* C12: a line with fewer than three parts between semicolons gives no
\* recipe row and no ingredient row (what the tables held under its recipe
\* id stays as it was), and every other line of the list is stored.
C12_MalformedLineSkipped ==
    \A kind \in { "refinery", "cooking" } :
        SavedLines(kind) =>
            \A i \in 1..Len(call.lines) :
                LET id == RecipeIdOf(KindPrefix(kind), call.item_id, i)
                    WithId(t) == SelectSeq(t, LAMBDA r : r.recipe_id = id)
                IN IF Semicolons(call.lines[i]) < 2
                   THEN /\ WithId(RecipesOf(CurrentDb, kind))
                               = WithId(RecipesOf(prev, kind))
                        /\ WithId(IngredientsOf(CurrentDb, kind))
                               = WithId(IngredientsOf(prev, kind))
                   ELSE /\ Len(WithId(RecipesOf(CurrentDb, kind))) = 1
                        /\ Len(WithId(IngredientsOf(CurrentDb, kind)))
                               > Len(WithId(IngredientsOf(prev, kind)))

\* the malformed line between two well-formed ones, into empty tables
C12_Witness ==
    /\ SavedLines("refinery")
    /\ call.lines = << l_smelt, l_bad, l_three >>
    /\ Semicolons(l_bad) < 2
    /\ prev.refinery_recipes = << >>
    /\ Len(refinery_recipes) = 2
    /\ refinery_recipes[1].recipe_id = RecipeIdOf(w_ref_, call.item_id, 1)
    /\ refinery_recipes[2].recipe_id = RecipeIdOf(w_ref_, call.item_id, 3)
    /\ \A k \in 1..Len(refinery_ingredients) :
          refinery_ingredients[k].recipe_id # RecipeIdOf(w_ref_, call.item_id, 2)

\* C13: every recipe row in the two recipe tables has the output_item_id its
\* recipe id is built from, and the rows that main() writes for a page have
\* as output_item_id the id under which the item of that page was stored in
\* the run, the page being the one that carried the lines.
C13_OutputIsPageItem ==
    /\ \A i \in 1..Len(refinery_recipes) :
          \E n \in 1..2 : refinery_recipes[i].recipe_id
                 = RecipeIdOf(w_ref_, refinery_recipes[i].output_item_id, n)
    /\ \A i \in 1..Len(cooking_recipes) :
          \E n \in 1..2 : cooking_recipes[i].recipe_id
                 = RecipeIdOf(w_cook_, cooking_recipes[i].output_item_id, n)
    /\ call.op = "save_recipes" =>
          /\ \E k \in 1..Len(items) :
                /\ items[k].id = call.item_id
                /\ ParsedPage(items[k].title).refinery_recipes = call.refinery
                /\ ParsedPage(items[k].title).cooking_recipes = call.cooking
                /\ \E e \in 1..Len(run_ids) :
                      run_ids[e].id = call.item_id /\ run_ids[e].title = items[k].title
          /\ \A i \in 1..Len(refinery_recipes) :
                refinery_recipes[i].recipe_id
                      \in RecipeIds(w_ref_, call.item_id, call.refinery)
                   => refinery_recipes[i].output_item_id = call.item_id
          /\ \A i \in 1..Len(cooking_recipes) :
                cooking_recipes[i].recipe_id
                      \in RecipeIds(w_cook_, call.item_id, call.cooking)
                   => cooking_recipes[i].output_item_id = call.item_id

\* the recipe of the page Carbon Ore, whose ingredient Carbon is a stored
\* item with another id
C13_Witness ==
    /\ call.op = "save_recipes" /\ call.ref_ok
    /\ call.refinery = << l_bad, l_crush >>
    /\ \E k \in 1..Len(items) : items[k].id = call.item_id /\ items[k].title = w_Carbon_Ore
    /\ \E i \in 1..Len(refinery_recipes) :
          /\ refinery_recipes[i].recipe_id = RecipeIdOf(w_ref_, call.item_id, 2)
          /\ refinery_recipes[i].output_item_id = call.item_id
          /\ \E j \in 1..Len(refinery_ingredients) :
                /\ refinery_ingredients[j].recipe_id = refinery_recipes[i].recipe_id
                /\ refinery_ingredients[j].ingredient_item_id # call.item_id
                /\ \E k \in 1..Len(items) :
                      items[k].id = refinery_ingredients[j].ingredient_item_id

ItemColumns == { "id", "title", "summary", "game_description", "source_info",
                 "use_info", "release_history", "additional_info", "fishing_info",
                 "progression_info", "type", "value" }

\* the record is the export of the item row
RecordOfItem(rec, row) ==
    /\ \A c \in ItemColumns : rec[c] = row[c]
    /\ rec.infobox = JsonLoads(row.infobox)
    /\ rec.categories = JsonLoads(row.categories)

\* the record is the export of the recipe row and of its ingredient rows
\* (the duration as the text of the number)
RecordOfRecipe(rec, row, ingredients) ==
    LET ings == SelectSeq(ingredients, LAMBDA g : g.recipe_id = row.recipe_id) IN
    /\ rec.id = row.recipe_id
    /\ rec.output.id = row.output_item_id
    /\ rec.time = StrOfFloat(row.time_seconds)
    /\ rec.operation = row.operation
    /\ Len(rec.inputs) = Len(ings)
    /\ \A j \in 1..Len(ings) :
          /\ rec.inputs[j].id = ings[j].ingredient_item_id
          /\ rec.inputs[j].quantity = ings[j].quantity

Ascending(list, column) ==
    \A i, j \in 1..Len(list) : i < j => ~ TextLess(list[j][column], list[i][column])

\* C16: export_group_from_db(label) writes one record per item row of the
\* label and none of another label, each with the id and the field values
\* of its row, in ascending title order; the recipe exports write one record
\* per recipe row, in ascending recipe-id order; the file read back is the
\* list of these records.
C16_ExportIsTheRows ==
    call.op = "export" =>
        /\ JsonLoads(files["out.json"]) = call.content
        /\ call.fn = "export_group_from_db" =>
             LET rows == { k \in 1..Len(items) : items[k].group_name = call.group } IN
             /\ Len(call.content) = Cardinality(rows)
             /\ \A k \in rows : \E i \in 1..Len(call.content) :
                    RecordOfItem(call.content[i], items[k])
             /\ \A i \in 1..Len(call.content) : \E k \in rows :
                    call.content[i].id = items[k].id
             /\ Ascending(call.content, "title")
        /\ call.fn = "export_refinery_recipes" =>
             /\ Len(call.content) = Len(refinery_recipes)
             /\ \A k \in 1..Len(refinery_recipes) : \E i \in 1..Len(call.content) :
                    RecordOfRecipe(call.content[i], refinery_recipes[k],
                                   refinery_ingredients)
             /\ Ascending(call.content, "id")
        /\ call.fn = "export_cooking_recipes" =>
             /\ Len(call.content) = Len(cooking_recipes)
             /\ \A k \in 1..Len(cooking_recipes) : \E i \in 1..Len(call.content) :
                    RecordOfRecipe(call.content[i], cooking_recipes[k],
                                   cooking_ingredients)
             /\ Ascending(call.content, "id")

\* the group rawMaterials exported while the row of Carbon Ore was written
\* before the row of Carbon and the table holds a row of another group
C16_Witness ==
    /\ call.op = "export" /\ call.fn = "export_group_from_db"
    /\ call.group = "rawMaterials"
    /\ Len(call.content) = 2
    /\ call.content[1].title = w_Carbon /\ call.content[2].title = w_Carbon_Ore
    /\ \E a, b \in 1..Len(items) :
          a < b /\ items[a].title = w_Carbon_Ore /\ items[b].title = w_Carbon
    /\ \E k \in 1..Len(items) : items[k].group_name = "cooking"

HasFile(name) == name \in DOMAIN files

\* C15: after the export step of main(), every label of TARGET_GROUPS has
\* its file, and the file of a label without an item row holds the empty
\* array (the labels refinery and nutrientProcessor left aside, whose file
\* names the recipe exports use).
C15_EmptyLabelGetsEmptyFile ==
    call.op = "export_all" =>
        \A g \in TARGET_GROUPS :
            /\ HasFile(TargetFile(g))
            /\ ( /\ g \notin { "refinery", "nutrientProcessor" }
                 /\ \A k \in 1..Len(items) : items[k].group_name # g )
               => files[TargetFile(g)] = JsonDumps(<< >>)

----------------------------------------------------------------------------
\* the titles the page loop of the current run has passed to save_item_to_db
TitlesOfRun == { run_ids[i].title : i \in 1..Len(run_ids) }

\* the pages of the current run whose raw markup could not be fetched
Unfetched == { t \in Pages \ skip_titles : t \notin todo /\ t \notin TitlesOfRun }

\* C17: a step of the page loop whose fetch fails stores no item row and
\* no recipe, allocates no id and collects no recipe line for the page,
\* stays in the page loop and leaves every other page of the run to visit;
\* the loop is left only when no page remains
C17_FetchFailureSkipsPage ==
    [][ /\ (call'.op = "get_page_raw_content" /\ todo' # todo) =>
             /\ UNCHANGED << dbVars, group_counters, group_counts,
                             collected_recipes, run_ids >>
             /\ pc' = "pages"
             /\ todo' = todo \ { call'.title }
        /\ (pc = "pages" /\ pc' # "pages") => todo = {} ]_vars

\* a page of the run was not fetched and has no row, and a page visited
\* after it has been stored
C17_Witness ==
    /\ pc = "pages" /\ call.op = "save_item_to_db" /\ call.result
    /\ \E t \in Unfetched : \A i \in 1..Len(items) : items[i].title # t

----------------------------------------------------------------------------
\* C18: when the storage engine raises an error on line k of a call of
\* save_refinery_recipes or save_cooking_recipes, every other well-formed
\* line of the call (the lines before k and the lines after k) has its
\* recipe row in the table after the call.
C18_AtMostOneLineLost ==
    \A kind \in { "refinery", "cooking" } :
        (call.op = "save_lines" /\ call.kind = kind /\ call.err > 0) =>
            \A i \in 1..Len(call.lines) :
                (i # call.err /\ Semicolons(call.lines[i]) >= 2) =>
                    \E k \in 1..Len(RecipesOf(CurrentDb, kind)) :
                        RecipesOf(CurrentDb, kind)[k].recipe_id
                            = RecipeIdOf(KindPrefix(kind), call.item_id, i)

----------------------------------------------------------------------------
\* C19: classify_item never returns products for an item whose infobox
\* field "used" contains "upgrading", whatever category and type are.
C19_UpgradingNeverProducts ==
    ( /\ Returned("classify_item")
      /\ Contains(w_upgrading, ClassifyFields(call.item_data).used_for) )
    => call.result # "products"

\* C20: classify_item never returns technology for a title containing
\* "room", nor for a type containing "module" when the type contains
\* "construction" or the infobox category contains "building".
C20_RoomAndBuildingModuleNotTechnology ==
    Returned("classify_item") =>
        LET f == ClassifyFields(call.item_data) IN
        /\ Contains(w_room, f.title) => call.result # "technology"
        /\ ( /\ Contains(w_module, f.item_type)
             /\ \/ Contains(w_construction, f.item_type)
                \/ Contains(w_building, f.category) )
           => call.result # "technology"

\* a module of type construction under a title with "room" that carries
\* technology signals and reaches the buildings test
C20_Witness ==
    /\ Returned("classify_item")
    /\ LET f == ClassifyFields(call.item_data) IN
       /\ Contains(w_room, f.title)
       /\ Contains(w_module, f.item_type) /\ Contains(w_construction, f.item_type)
       /\ Contains(w_building, f.category)
       /\ IsTechnology(f)
       /\ ~ IsProducts(f) /\ ~ IsTrade(f)
       /\ call.result = "buildings"

----------------------------------------------------------------------------
\* C21: an item whose infobox type contains "technology", "platform" or
\* "module" and none of the edible/food keywords, whose field "used" lacks
\* "cooking" and whose infobox category neither contains "edible" nor is
\* "consumable", is not classified as cooking, whatever its description is.
C21_DescriptionAloneNotCookingForTechnology ==
    Returned("classify_item") =>
        LET f == ClassifyFields(call.item_data) IN
        ( /\ AnyIn({w_technology, w_platform, w_module}, f.item_type)
          /\ ~ AnyIn({w_edible, w_food, w_ingredient, w_nutrient, w_meal, w_drink,
                      w_bait, w_larva, w_grub}, f.item_type)
          /\ ~ Contains(w_cooking, f.used_for)
          /\ ~ Contains(w_edible, f.category)
          /\ f.category # w_consumable )
        => call.result # "cooking"

\* a technology module whose description has cooking words, which reaches
\* the cooking test and is labelled by a later one
C21_Witness ==
    /\ Returned("classify_item")
    /\ LET f == ClassifyFields(call.item_data) IN
       /\ Contains(w_module, f.item_type)
       /\ AnyIn({w_edible, w_food}, f.description)
       /\ ~ IsRawMaterials(f) /\ ~ IsFish(f)
       /\ call.result = "technology"

----------------------------------------------------------------------------
\* an ingredient component Name,Quantity whose quantity is not a
\* non-negative integer
UnparseableQty(part) ==
    Contains(<< "," >>, part) /\ ~ IsDigit(Strip(Split1(part, ",")[2]))

\* C22: for every stored line, the ingredient rows written under its recipe
\* id are as many as its components with a parseable quantity: a component
\* whose quantity is not a non-negative integer gets no row, and the recipe
\* row is stored.
C22_UnparseableIngredientSkipped ==
    \A kind \in { "refinery", "cooking" } :
        SavedLines(kind) =>
            \A i \in 1..Len(call.lines) :
                LET parts == Split(call.lines[i], ";")
                    id    == RecipeIdOf(KindPrefix(kind), call.item_id, i)
                    rows  == SelectSeq(Added(IngredientsOf(prev, kind),
                                             IngredientsOf(CurrentDb, kind)),
                                       LAMBDA r : r.recipe_id = id)
                IN Len(parts) >= 3 =>
                     /\ \E k \in 1..Len(RecipesOf(CurrentDb, kind)) :
                            RecipesOf(CurrentDb, kind)[k].recipe_id = id
                     /\ Len(rows) =
                          Cardinality({ j \in 1..(Len(parts) - 2) :
                                          /\ Contains(<< "," >>, parts[j])
                                          /\ ~ UnparseableQty(parts[j]) })

----------------------------------------------------------------------------
\* a text that reads as a number: digits with at most one dot, blanks
\* around it allowed (what float() accepts among the texts of the model)
ParsesAsNumber(s) ==
    /\ IsDigit(Replace(Strip(s), ".", << >>))
    /\ Len(Split(Strip(s), ".")) <= 2

DefaultTime(kind) == IF kind = "refinery" THEN w_1_0 ELSE w_2_5

\* C23: the duration stored for a line is the default of the kind (1.0 for
\* refinery, 2.5 for cooking) when the time component does not parse as a
\* number, and the parsed value when it does, blanks around it included.
C23_TimeParsedOrDefault ==
    \A kind \in { "refinery", "cooking" } :
        SavedLines(kind) =>
            \A i \in 1..Len(call.lines) :
                LET parts == Split(call.lines[i], ";")
                    id    == RecipeIdOf(KindPrefix(kind), call.item_id, i)
                    time  == Split1(parts[Len(parts)], "%")[1]
                IN Len(parts) >= 3 =>
                     \A k \in 1..Len(RecipesOf(CurrentDb, kind)) :
                         RecipesOf(CurrentDb, kind)[k].recipe_id = id =>
                             RecipesOf(CurrentDb, kind)[k].time_seconds
                                 = IF ParsesAsNumber(time) THEN FloatOf(Strip(time))
                                   ELSE DefaultTime(kind)

----------------------------------------------------------------------------
\* the records of an exported recipe file whose output quantity is not the
\* second-to-last component of the line the recipe was saved from
WrongOutputQty(file, prefix, item_id, lines) ==
    { r \in { JsonLoads(files[file])[k] : k \in 1..Len(JsonLoads(files[file])) } :
        \E i \in 1..Len(lines) :
            LET parts == Split(lines[i], ";") IN
            /\ Len(parts) >= 3
            /\ r.id = RecipeIdOf(prefix, item_id, i)
            /\ IsDigit(parts[Len(parts) - 1])
            /\ r.output.quantity # IntOf(parts[Len(parts) - 1]) }

\* C24: after the export step of a run without a fault, every exported
\* recipe of the run has as output quantity the second-to-last component of
\* its recipe line (2 for a line ending in ";2;1.5%Op").
C24_OutputQuantityFromLine ==
    (call.op = "export_all" /\ faults = 0) =>
        \A e \in 1..Len(collected_recipes) :
            /\ WrongOutputQty("Refinery.json", w_ref_, collected_recipes[e].key,
                              collected_recipes[e].value.refinery) = {}
            /\ WrongOutputQty("NutrientProcessor.json", w_cook_,
                              collected_recipes[e].key,
                              collected_recipes[e].value.cooking) = {}

----------------------------------------------------------------------------
\* the pages of the current run whose save_item_to_db call failed
Unsaved == { run_ids[i].id : i \in { k \in 1..Len(run_ids) : ~ run_ids[k].saved } }

HasItem(id) == \E k \in 1..Len(items) : items[k].id = id

\* C29: in the run that starts from the empty database, every refinery and
\* cooking recipe row has an output_item_id with an item row, the recipe
\* lines collected belong to pages whose item was saved, and no recipe row
\* stands under the id of a page whose save failed.
C29_RecipeOutputHasItem ==
    runs = 1 =>
        /\ \A i \in 1..Len(refinery_recipes) : HasItem(refinery_recipes[i].output_item_id)
        /\ \A i \in 1..Len(cooking_recipes) : HasItem(cooking_recipes[i].output_item_id)
        /\ \A e \in 1..Len(collected_recipes) :
              \E k \in 1..Len(run_ids) :
                  run_ids[k].id = collected_recipes[e].key /\ run_ids[k].saved
        /\ \A i \in 1..Len(refinery_recipes) :
              refinery_recipes[i].output_item_id \notin Unsaved
        /\ \A i \in 1..Len(cooking_recipes) :
              cooking_recipes[i].output_item_id \notin Unsaved

\* the first run has written recipes while one page with recipe lines was
\* not saved
C29_Witness ==
    /\ runs = 1 /\ pc = "export"
    /\ refinery_recipes # << >>
    /\ \E k \in 1..Len(run_ids) :
          /\ ~ run_ids[k].saved
          /\ ParsedPage(run_ids[k].title).cooking_recipes # << >>
    /\ cooking_recipes = << >>

\* a fetched page of the list holds a Refinery / Refine template whose
\* parameters parse_refinery_template turns into a recipe
HasHistoricalRecipe(pages) ==
    \E p \in 1..Len(pages) :
        /\ pages[p].fetched
        /\ \E w \in 1..Len(refinery_patterns) :
              PatternMatches(refinery_patterns[w], pages[p].content) # << >>

\* C25: when a fetched page uses a historical Refinery / Refine template
\* with input= and output= parameters, extract_refinery_recipes raises no
\* error and Refinery.json holds the recipes, each input and the output
\* with id, name and quantity.
C25_HistoricalTemplateExported ==
    ( call.op = "extract_refinery_recipes" /\ HasHistoricalRecipe(call.pages) ) =>
        /\ ~ call.out.raised
        /\ "Refinery.json" \in DOMAIN files
        /\ JsonLoads(files["Refinery.json"]) = call.out.recipes
        /\ call.out.recipes # << >>
        /\ \A r \in 1..Len(call.out.recipes) :
              /\ \A i \in 1..Len(call.out.recipes[r].inputs) :
                    HasKeys(call.out.recipes[r].inputs[i], { "id", "name", "quantity" })
              /\ \A i \in 1..Len(call.out.recipes[r].output) :
                    HasKeys(call.out.recipes[r].output[i], { "id", "name", "quantity" })

\* the items table has a row whose title is the query
HasExactTitle(item_name) == \E k \in 1..Len(items) : items[k].title = item_name

\* C27: on the cache load_item_ids built from the items table, get_item_id
\* of a query that is the title of an item returns the id of an item with
\* exactly that title, whatever the order of the rows.
C27_ExactTitleWins ==
    ( /\ call.op = "get_item_id"
      /\ item_id_cache = load_item_ids(<< >>, items)
      /\ HasExactTitle(call.item_name) ) =>
        \E k \in 1..Len(items) :
            items[k].title = call.item_name /\ items[k].id = call.result

\* the ingredients of a line: the materials 'name,amount' with a name and
\* an amount int() accepts
IsIngredient(material) ==
    /\ Contains(<< "," >>, material)
    /\ Strip(Split1(material, ",")[1]) # << >>
    /\ IsDigit(Strip(Split1(material, ",")[2]))

Ingredients(line) == SelectSeq(Materials(line), IsIngredient)

\* C28: parse_cook_line and parse_craft_line keep every ingredient of the
\* line in the recipe's inputs, under a missing marker when its name
\* resolves to no item, and a line with ingredients gives a recipe also
\* when the output page resolves to no item.
C28_UnresolvedKeptWithMarker ==
    ( /\ call.op \in { "parse_cook_line", "parse_craft_line" }
      /\ Ingredients(call.line) # << >>
      /\ ~ ( call.op = "parse_craft_line" /\ Contains(w_blueprint_yes, call.line) ) ) =>
        /\ call.result # << >>
        /\ Len(call.result[1].inputs) = Len(Ingredients(call.line))

\* the items table holds a row of the page
StoredPage(page_title) == \E k \in 1..Len(items) : items[k].title = page_title

\* C26: every fetched page gets a label from classify_item_intelligently,
\* also the page whose description is None, no exception ends the run,
\* and when the database accepts the write the page is stored.
C26_NullDescriptionClassified ==
    ( call.op = "page" /\ call.fetched ) =>
        /\ call.group \in TARGET_GROUPS
        /\ pc # "raised"
        /\ call.db_ok => StoredPage(call.page_title)

\* C30: a save_item_to_db call of the wiki scraper with an id of seen_items
\* returns False and leaves the items table as it was, and after every
\* call the id is in seen_items, also when the write failed; so the row of
\* an id is written at most once by a scraper instance.
C30_SeenIdWrittenOnce ==
    [][ call'.op = "wiki_save" =>
          /\ call'.item_id \in seen_items'
          /\ ( call'.item_id \in seen_items =>
                 ~ call'.returned /\ items' = items /\ seen_items' = seen_items )
          /\ ( items' # items => call'.item_id \notin seen_items /\ call'.returned )
      ]_vars

\* a call the database would have accepted is skipped for an id whose
\* first write failed: the table holds no row of the id
C30_Witness ==
    /\ call.op = "wiki_save" /\ call.db_ok /\ ~ call.returned
    /\ call.item_id \in seen_items
    /\ \A k \in 1..Len(items) : items[k].id # call.item_id

====
